---- MODULE Spec2Model ----
(***************************************************************************)
(* A model of the geo-resolution core of pvo_limburg:                      *)
(*   - geoNames/gazetteer_parser.py : load_geonames_file                   *)
(*   - geo_filter.py                : the import-time gazetteer merge and  *)
(*                                    voting_country_from_locations        *)
(*                                                                         *)
(* Strings are sequences of one-character strings, so that lowercasing,    *)
(* trimming, splitting and the two regular expressions are computed and    *)
(* not assumed.  Floats that are quotients of small integers are kept as   *)
(* fractions <<numerator, denominator>> and compared by cross              *)
(* multiplication (IEEE division is correctly rounded, so k/n compares     *)
(* with the double nearest to a fraction as the fractions compare).        *)
(***************************************************************************)
EXTENDS Integers, Sequences, FiniteSets, TLC

VARIABLES
    \* voting_country_from_locations(locations, gazetteer, threshold)
    locations,        \* the candidate names, in order
    v_gazetteer,      \* the gazetteer argument (a dict: key -> country code)
    threshold,        \* the threshold argument, a fraction
    votes,            \* the local dict votes
    evidence,         \* the local list evidence
    li,               \* position of the for loop over locations
    cc,               \* the local cc of the last iteration
    vpc,              \* "start" | "loop" | "done"
    result,           \* the returned triple, None before the return
    calls,            \* how many calls the caller has made with these arguments
    prev_result,      \* what the call before this one returned, None in the first
    \* load_geonames_file(path, keep_countries, keep_classes, keep_alternates)
    keep_countries,   \* the keep_countries argument
    keep_classes,     \* the keep_classes argument
    keep_alternates,  \* the keep_alternates argument
    l_gazetteer,      \* the local dict gazetteer
    row,              \* the row the reader gave last, None before the first
    nread,            \* number of rows read so far
    l_writes,         \* the dict stores done for that row: key, value, source line
    lpc,              \* "idle" | "loop" | "done"
    \* geo_filter.py at import time
    files,            \* the rows of geoNames/NL.txt, BE.txt and DE.txt
    nl_gaz, be_gaz, de_gaz,
    gazetteer,        \* the module-level merged dict
    mi,               \* position of the for loop over (nl_gaz, be_gaz, de_gaz)
    mpc,              \* "idle" | "load_nl" | "load_be" | "load_de" | "merge" | "loop" | "done"
    \* filtering_articles_by_country(df, min_conf)
    f_df,             \* the table argument: its columns and its rows
    f_min_conf,       \* the min_conf argument, a fraction
    f_filtered,       \* the local df_filtered_by_country, Unbound before line 119
    f_result,         \* the returned table, Unbound when nothing was returned
    f_error,          \* the exception that left the function, Unbound when none did
    fpc,              \* "idle" | "call" | "print" | "done" | "raised"
    \* run_snorkel(df, lfs, min_conf)
    s_df,             \* the table argument, changed in place
    s_lfs,            \* the lfs argument: PyNone or a list of labeling functions
    s_min_conf,       \* the min_conf argument, a fraction
    s_L,              \* the vote matrix L
    s_label_model,    \* the local label_model
    s_probs,          \* column 1 of the local probs
    s_result,         \* the returned pair
    s_error,          \* the exception that left the function
    spc,              \* "idle" | "call" | "fit" | "predict" | "label" | "done" | "raised"
    \* scrape_nos_feeds.main(out_csv, out_json, max_feeds, max_items_per_feed)
    n_feeds,          \* what parse_feed gives for each link of feed_links
    n_max_feeds,      \* the max_feeds argument, 0 for None
    n_max_items,      \* the max_items_per_feed argument, 0 for None
    n_i,              \* the index i of the feed loop
    n_j,              \* the index j of the entry loop
    n_subset,         \* the local subset
    n_rows,           \* the local rows
    n_seen_urls,      \* the local seen_urls
    n_fetched,        \* the URLs entry_to_row was called for, in order
    n_interrupt,      \* whether a KeyboardInterrupt arrived, where, and the rows then
    n_written,        \* what the finally block wrote
    npc,              \* "idle" | "feed" | "entry" | "fetch" | "sleep" | "finally" | "end"
    \* build_geo_df
    g_locations,  \* the candidate locations of each article (line 145)
    g_min_conf,   \* the argument min_conf
    g_df,         \* the table after line 149
    g_result,     \* the table returned
    gpc,          \* position in build_geo_df
    \* merge_json_files
    j_nfiles,     \* len(json_files)
    j_fi,         \* the number of files taken from json_files so far
    j_data,       \* data, the list of the file being merged
    j_ii,         \* the number of items of data handled so far
    j_all,        \* all_articles
    j_seen,       \* seen_urls
    j_skipped,    \* the files the except clause skipped at opening
    j_out,        \* the list written to output_file
    jpc,          \* "idle" | "file" | "item" | "end" | "raised"
    \* _clamp_date_range
    c_min,        \* min_d, a day
    c_max,        \* max_d, a day
    c_today,      \* the day datetime.today() gives
    c_value,      \* the argument value
    c_result,     \* the outcome of the call
    c_again,      \* the outcome of the call on the result
    cpc,          \* "idle" | "call" | "done" | "raised" | "again"
    \* security_nl_historical
    h_npages,     \* the number of pages of the archive
    h_cutoff,     \* date, a day
    h_page,       \* page
    h_nposts,     \* len(posts) of the page fetched
    h_pi,         \* the number of posts of the page handled so far
    h_articles,   \* articles, by their dates
    h_within_date,  \* within_date
    h_full_text,  \* whether full_text is bound
    h_error,      \* the exception that ended the call
    hpc           \* "idle" | "while" | "posts" | "returned" | "raised"

voteVars == <<locations, v_gazetteer, threshold, votes, evidence, li, cc, vpc, result,
              calls, prev_result>>
loadVars == <<keep_countries, keep_classes, keep_alternates, l_gazetteer, row, nread,
              l_writes, lpc>>
mergeVars == <<files, nl_gaz, be_gaz, de_gaz, gazetteer, mi, mpc>>

filterVars == <<f_df, f_min_conf, f_filtered, f_result, f_error, fpc>>

smeVars == <<s_df, s_lfs, s_min_conf, s_L, s_label_model, s_probs, s_result, s_error, spc>>

nosVars == <<n_feeds, n_max_feeds, n_max_items, n_i, n_j, n_subset, n_rows, n_seen_urls,
             n_fetched, n_interrupt, n_written, npc>>

geoVars == <<g_locations, g_min_conf, g_df, g_result, gpc>>

mjVars == <<j_nfiles, j_fi, j_data, j_ii, j_all, j_seen, j_skipped, j_out, jpc>>

clampVars == <<c_min, c_max, c_today, c_value, c_result, c_again, cpc>>

histVars == <<h_npages, h_cutoff, h_page, h_nposts, h_pi, h_articles, h_within_date,
              h_full_text, h_error, hpc>>

vars == <<voteVars, loadVars, mergeVars, filterVars, smeVars, nosVars, geoVars, mjVars, clampVars, histVars>>

None == "None"

----------------------------------------------------------------------------
(* Characters and strings                                                  *)

(* A character is a string; the ASCII characters stand for themselves and  *)
(* four characters of the Latin-1 block are written in ASCII:              *)
(*   "e'" U+00E9  e acute        "E'" U+00C9  E acute                      *)
(*   "n~" U+00F1  n tilde        "N~" U+00D1  N tilde                      *)

Digits == {"0", "1", "2", "3", "4", "5", "6", "7", "8", "9"}
UpperAscii == {"A", "B", "C", "D", "E", "F", "G", "H", "I", "J", "K", "L", "M",
               "N", "O", "P", "Q", "R", "S", "T", "U", "V", "W", "X", "Y", "Z"}
LowerAscii == {"a", "b", "c", "d", "e", "f", "g", "h", "i", "j", "k", "l", "m",
               "n", "o", "p", "q", "r", "s", "t", "u", "v", "w", "x", "y", "z"}
\* the part of U+00C0..U+00DF and of U+00E0..U+00FF the model uses
UpperLatin1 == {"E'", "N~"}
LowerLatin1 == {"e'", "n~"}
Whitespace == {" "}

\* str.lower() on one character
LowerChar(c) ==
    CASE c = "A" -> "a" [] c = "B" -> "b" [] c = "C" -> "c" [] c = "D" -> "d"
      [] c = "E" -> "e" [] c = "F" -> "f" [] c = "G" -> "g" [] c = "H" -> "h"
      [] c = "I" -> "i" [] c = "J" -> "j" [] c = "K" -> "k" [] c = "L" -> "l"
      [] c = "M" -> "m" [] c = "N" -> "n" [] c = "O" -> "o" [] c = "P" -> "p"
      [] c = "Q" -> "q" [] c = "R" -> "r" [] c = "S" -> "s" [] c = "T" -> "t"
      [] c = "U" -> "u" [] c = "V" -> "v" [] c = "W" -> "w" [] c = "X" -> "x"
      [] c = "Y" -> "y" [] c = "Z" -> "z"
      [] c = "E'" -> "e'" [] c = "N~" -> "n~"
      [] OTHER -> c

\* A plausible slip: the candidate is looked up as written
Lower_CaseSensitive(s) == s

\* str.lower()
Lower(s) == [i \in 1..Len(s) |-> LowerChar(s[i])]

Oss   == <<"O", "s", "s">>
oSS   == <<"o", "S", "S">>
Os    == <<"O", "s">>
Osse  == <<"O", "s", "s", "e">>
Ulm   == <<"U", "l", "m">>
Spa   == <<"S", "p", "a">>
Lyon  == <<"L", "y", "o", "n">>

----------------------------------------------------------------------------
(* geoNames/gazetteer_parser.py                                            *)

\* the character class of LATIN_ONLY: [0-9A-Za-z U+00C0-U+00FF \s \- \']
LatinChars == Digits \cup UpperAscii \cup LowerAscii \cup UpperLatin1 \cup LowerLatin1
                  \cup Whitespace \cup {"-", "'"}

\* A plausible slip: the pattern is searched for, not matched from end to end
LatinOnly_Search(s) == \E i \in 1..Len(s) : s[i] \in LatinChars

\* LATIN_ONLY.match(s): one or more characters, all of the class
LatinOnly(s) == Len(s) > 0 /\ \A i \in 1..Len(s) : s[i] \in LatinChars

\* the character class of HAS_VOWEL, [aeiouy U+00E0-U+00FF] under re.IGNORECASE
VowelClass == {"a", "e", "i", "o", "u", "y"} \cup LowerLatin1

\* HAS_VOWEL.search(s)
HasVowel(s) == \E i \in 1..Len(s) : LowerChar(s[i]) \in VowelClass

RECURSIVE LStrip(_)
LStrip(s) == IF s # <<>> /\ Head(s) \in Whitespace THEN LStrip(Tail(s)) ELSE s

RECURSIVE RStrip(_)
RStrip(s) ==
    IF s # <<>> /\ s[Len(s)] \in Whitespace THEN RStrip(SubSeq(s, 1, Len(s) - 1)) ELSE s

\* str.strip()
Strip(s) == RStrip(LStrip(s))

\* str.split(","): the pieces between the commas, empty pieces included
RECURSIVE SplitComma(_)
SplitComma(s) ==
    IF \E i \in 1..Len(s) : s[i] = ","
    THEN LET i == CHOOSE i \in 1..Len(s) :
                      s[i] = "," /\ \A j \in 1..(i - 1) : s[j] # ","
         IN  <<SubSeq(s, 1, i - 1)>> \o SplitComma(SubSeq(s, i + 1, Len(s)))
    ELSE <<s>>

\* gazetteer[key] = value
DictSet(d, k, v) == [x \in DOMAIN d \cup {k} |-> IF x = k THEN v ELSE d[x]]

\* len(row) < 9
MinColumns == 9

\* not (len(alt) < 3)
AltLongEnough(alt) == ~(Len(alt) < 3)

\* the tests of lines 42-49 on a trimmed, lowercased alternate name
AltAccepted(alt) ==
    /\ alt # <<>>
    /\ LatinOnly(alt)
    /\ AltLongEnough(alt)
    /\ HasVowel(alt)

\* the for loop over alt_names, lines 40-50; st is [gaz, writes]
RECURSIVE AddAlternates(_, _, _)
AddAlternates(st, alt_names, country_code) ==
    IF alt_names = <<>> THEN st
    ELSE LET alt == Lower(Strip(Head(alt_names)))
             st1 == IF AltAccepted(alt)
                    THEN [gaz |-> DictSet(st.gaz, alt, country_code),
                          writes |-> Append(st.writes, [key |-> alt, value |-> country_code,
                                                        line |-> 50])]
                    ELSE st
         IN  AddAlternates(st1, Tail(alt_names), country_code)

\* row[3].split(",") if (row[3] and keep_alternates) else []
AltNames(r, keepAlt) == IF r[4] # <<>> /\ keepAlt THEN SplitComma(r[4]) ELSE <<>>

\* A plausible slip: the country is not tested
RowKept_NoCountryTest(r, keepC, keepK) == r[7] \in keepK

\* lines 31-34: neither continue is taken
RowKept(r, keepC, keepK) == r[9] \in keepC /\ r[7] \in keepK

\* the body of the for loop over the reader, lines 23-50, for one row:
\* the dict after the row and the stores the row did
ProcessRow(gaz, r, keepC, keepK, keepAlt) ==
    IF Len(r) < MinColumns THEN [gaz |-> gaz, writes |-> <<>>]
    ELSE LET name == r[2]
             alt_names == AltNames(r, keepAlt)
             country_code == r[9]
         IN  IF ~RowKept(r, keepC, keepK) THEN [gaz |-> gaz, writes |-> <<>>]
             ELSE LET main == Lower(Strip(name))
                      st == IF main # <<>> /\ LatinOnly(main)
                            THEN [gaz |-> DictSet(gaz, main, country_code),
                                  writes |-> <<[key |-> main, value |-> country_code,
                                                line |-> 38]>>]
                            ELSE [gaz |-> gaz, writes |-> <<>>]
                  IN  AddAlternates(st, alt_names, country_code)

\* load_geonames_file on a file given as its rows
RECURSIVE LoadRows(_, _, _, _, _)
LoadRows(gaz, rows, keepC, keepK, keepAlt) ==
    IF rows = <<>> THEN gaz
    ELSE LoadRows(ProcessRow(gaz, Head(rows), keepC, keepK, keepAlt).gaz,
                  Tail(rows), keepC, keepK, keepAlt)

LoadGeonamesFile(rows, keepC, keepK, keepAlt) == LoadRows(<<>>, rows, keepC, keepK, keepAlt)

\* the defaults of the parameters, line 13
DefaultKeepCountries == {"NL", "BE", "DE"}
DefaultKeepClasses == {"P", "A"}

\* a GeoNames row with the four columns the parser reads; the others are empty
MkRow(name, alternates, feature_class, country_code) ==
    <<<<>>, name, <<>>, alternates, <<>>, <<>>, feature_class, <<>>, country_code>>

Halle == <<"H", "a", "l", "l", "e">>
Born == <<"B", "o", "r", "n">>

\* "Osse, Os ,,Dns": a good alternate, a short one, an empty one, one without vowel
AltsOss == <<"O", "s", "s", "e", ",", " ", "O", "s", " ", ",", ",", "D", "n", "s">>
\* "DN~S,o#s,e'e'n": a consonant of the Latin-1 block, a bad character, accents
AltsUlm == <<"D", "N~", "S", ",", "o", "#", "s", ",", "e'", "e'", "n">>

RowOss == MkRow(Oss, AltsOss, "P", "NL")
RowSpa == MkRow(<<" ">> \o Spa \o <<" ">>, <<>>, "A", "BE")
RowUlm == MkRow(Ulm, AltsUlm, "P", "DE")
RowLyon == MkRow(Lyon, Lyon, "P", "FR")
\* a lake: feature class H
RowLake == MkRow(Born, Osse, "H", "NL")
\* a row cut short
RowShort == <<<<>>, Oss, <<>>, Osse>>
\* a name with a character outside the pattern, "O#s", and a good alternate
RowBadName == MkRow(<<"O", "#", "s">>, Halle, "P", "BE")
\* a second country for a name another row has
RowOssDE == MkRow(oSS, <<>>, "A", "DE")

Rows == {RowOss, RowSpa, RowUlm, RowLyon, RowLake, RowShort, RowBadName, RowOssDE}

MaxRows == 3

KeepCountriesArgs == {DefaultKeepCountries, {"NL"}, {"DE", "FR"}}
KeepClassesArgs == {DefaultKeepClasses, {"P"}}

LoadIdle ==
    /\ keep_countries = {}
    /\ keep_classes = {}
    /\ keep_alternates = FALSE
    /\ l_gazetteer = <<>>
    /\ row = None
    /\ nread = 0
    /\ l_writes = <<>>
    /\ lpc = "idle"

\* the call, and gazetteer = {} of line 18
LoadInit ==
    /\ keep_countries \in KeepCountriesArgs
    /\ keep_classes \in KeepClassesArgs
    /\ keep_alternates \in BOOLEAN
    /\ l_gazetteer = <<>>
    /\ row = None
    /\ nread = 0
    /\ l_writes = <<>>
    /\ lpc = "loop"

\* one iteration of the for loop over the reader, lines 22-50
LoadRow ==
    /\ lpc = "loop"
    /\ nread < MaxRows
    /\ \E r \in Rows :
         LET st == ProcessRow(l_gazetteer, r, keep_countries, keep_classes, keep_alternates)
         IN  /\ row' = r
             /\ l_gazetteer' = st.gaz
             /\ l_writes' = st.writes
    /\ nread' = nread + 1
    /\ UNCHANGED <<keep_countries, keep_classes, keep_alternates, lpc>>

\* the reader is exhausted: return gazetteer, line 52
LoadReturn ==
    /\ lpc = "loop"
    /\ lpc' = "done"
    /\ UNCHANGED <<keep_countries, keep_classes, keep_alternates, l_gazetteer, row, nread,
                   l_writes>>

----------------------------------------------------------------------------
(* geo_filter.py at import time, lines 61-68                               *)

\* A plausible slip: the first table to hold a name keeps it
DictUpdate_KeepFirst(d, g) ==
    [x \in DOMAIN d \cup DOMAIN g |-> IF x \in DOMAIN d THEN d[x] ELSE g[x]]

\* d.update(g)
DictUpdate(d, g) == [x \in DOMAIN d \cup DOMAIN g |-> IF x \in DOMAIN g THEN g[x] ELSE d[x]]

\* the for loop of lines 66-68 over the tables, in the order given
RECURSIVE MergeAll(_, _)
MergeAll(d, tables) ==
    IF tables = <<>> THEN d ELSE MergeAll(DictUpdate(d, Head(tables)), Tail(tables))

FileRows == {MkRow(Halle, <<>>, "P", "NL"), MkRow(Halle, Born, "P", "BE"),
             MkRow(Halle, <<>>, "A", "DE"), MkRow(Born, <<>>, "P", "DE"),
             MkRow(Oss, Born, "P", "NL")}

MaxFileRows == 1

FileContents == UNION {[1..n -> FileRows] : n \in 0..MaxFileRows}

MergeIdle ==
    /\ files = <<>>
    /\ nl_gaz = <<>>
    /\ be_gaz = <<>>
    /\ de_gaz = <<>>
    /\ gazetteer = <<>>
    /\ mi = 0
    /\ mpc = "idle"

MergeInit ==
    /\ files \in [{"NL", "BE", "DE"} -> FileContents]
    /\ nl_gaz = <<>>
    /\ be_gaz = <<>>
    /\ de_gaz = <<>>
    /\ gazetteer = <<>>
    /\ mi = 0
    /\ mpc = "load_nl"

\* line 61
LoadNL ==
    /\ mpc = "load_nl"
    /\ nl_gaz' = LoadGeonamesFile(files["NL"], {"NL"}, DefaultKeepClasses, TRUE)
    /\ mpc' = "load_be"
    /\ UNCHANGED <<files, be_gaz, de_gaz, gazetteer, mi>>

\* line 62
LoadBE ==
    /\ mpc = "load_be"
    /\ be_gaz' = LoadGeonamesFile(files["BE"], {"BE"}, DefaultKeepClasses, TRUE)
    /\ mpc' = "load_de"
    /\ UNCHANGED <<files, nl_gaz, de_gaz, gazetteer, mi>>

\* line 63
LoadDE ==
    /\ mpc = "load_de"
    /\ de_gaz' = LoadGeonamesFile(files["DE"], {"DE"}, DefaultKeepClasses, TRUE)
    /\ mpc' = "merge"
    /\ UNCHANGED <<files, nl_gaz, be_gaz, gazetteer, mi>>

\* line 66
MergeBegin ==
    /\ mpc = "merge"
    /\ gazetteer' = <<>>
    /\ mi' = 1
    /\ mpc' = "loop"
    /\ UNCHANGED <<files, nl_gaz, be_gaz, de_gaz>>

\* for g in (nl_gaz, be_gaz, de_gaz)
MergeTables == <<nl_gaz, be_gaz, de_gaz>>

\* one iteration of the for loop, lines 67-68
MergeUpdate ==
    /\ mpc = "loop"
    /\ mi <= Len(MergeTables)
    /\ gazetteer' = DictUpdate(gazetteer, MergeTables[mi])
    /\ mi' = mi + 1
    /\ UNCHANGED <<files, nl_gaz, be_gaz, de_gaz, mpc>>

\* the loop is over
MergeEnd ==
    /\ mpc = "loop"
    /\ mi > Len(MergeTables)
    /\ mpc' = "done"
    /\ UNCHANGED <<files, nl_gaz, be_gaz, de_gaz, gazetteer, mi>>

----------------------------------------------------------------------------
(* Fractions                                                               *)

Frac(n, d) == <<n, d>>
FracLess(a, b) == a[1] * b[2] < b[1] * a[2]
FracEq(a, b) == a[1] * b[2] = b[1] * a[2]

----------------------------------------------------------------------------
(* voting_country_from_locations                                           *)

\* the keys of votes, in the insertion order of the dict literal
VoteKeys == <<"NL", "BE", "DE">>

\* votes = {"NL": 0, "BE": 0, "DE": 0}
InitVotes == [c \in {VoteKeys[i] : i \in 1..Len(VoteKeys)} |-> 0]

\* A plausible slip: one list shared by all calls (a module-level list or a
\* mutable default argument) in place of a new list per call
InitEvidence_Shared == evidence

\* evidence = [], line 78
InitEvidence == <<>>

\* dict.get(key): the value, or None
DictGet(d, k) == IF k \in DOMAIN d THEN d[k] ELSE None

\* A plausible slip: any gazetteer hit is counted, whatever its country
InVotes_AnyHit(c, v) == c # None

\* cc in votes
InVotes(c, v) == c \in DOMAIN v

\* A plausible slip: the evidence is recorded before the membership test
CountVote_EvidenceAlways(v, ev, loc, gaz) ==
    LET c == DictGet(gaz, Lower(loc))
    IN  IF InVotes(c, v)
        THEN [votes |-> [v EXCEPT ![c] = @ + 1], evidence |-> Append(ev, <<loc, c>>), cc |-> c]
        ELSE [votes |-> v, evidence |-> Append(ev, <<loc, c>>), cc |-> c]

\* A plausible slip: the loop stops counting after its first hit (a break)
CountVote_StopAtFirst(v, ev, loc, gaz) ==
    LET c == DictGet(gaz, Lower(loc))
    IN  IF InVotes(c, v) /\ ev = <<>>
        THEN [votes |-> [v EXCEPT ![c] = @ + 1], evidence |-> Append(ev, <<loc, c>>), cc |-> c]
        ELSE [votes |-> v, evidence |-> ev, cc |-> c]

\* the body of the for loop, for one candidate
CountVote(v, ev, loc, gaz) ==
    LET c == DictGet(gaz, Lower(loc))
    IN  IF InVotes(c, v)
        THEN [votes |-> [v EXCEPT ![c] = @ + 1], evidence |-> Append(ev, <<loc, c>>), cc |-> c]
        ELSE [votes |-> v, evidence |-> ev, cc |-> c]

\* sum(votes.values())
SumVotes(v) == v["NL"] + v["BE"] + v["DE"]

\* A plausible slip: the early return is taken on the wrong comparison
NoVotes_Never(total) == total < 0

\* total == 0
NoVotes(total) == total = 0

\* votes.items(), in dict order
VotesItems(v) == [i \in 1..Len(VoteKeys) |-> <<VoteKeys[i], v[VoteKeys[i]]>>]

\* A plausible slip: the last of the maximal items (a >= update)
MaxByValue_Last(items) ==
    LET i == CHOOSE i \in 1..Len(items) :
                 /\ \A j \in 1..Len(items) : items[j][2] <= items[i][2]
                 /\ \A j \in (i + 1)..Len(items) : items[j][2] < items[i][2]
    IN  items[i]

\* A plausible slip: min in place of max
MaxByValue_Min(items) ==
    LET i == CHOOSE i \in 1..Len(items) :
                 /\ \A j \in 1..Len(items) : items[i][2] <= items[j][2]
                 /\ \A j \in 1..(i - 1) : items[i][2] < items[j][2]
    IN  items[i]

\* max(items, key=lambda kv: kv[1]): the first of the maximal items
MaxByValue(items) ==
    LET i == CHOOSE i \in 1..Len(items) :
                 /\ \A j \in 1..Len(items) : items[j][2] <= items[i][2]
                 /\ \A j \in 1..(i - 1) : items[j][2] < items[i][2]
    IN  items[i]

\* A plausible slip: the share of the winner among the candidates
Confidence_OverCandidates(best_val, total) == Frac(best_val, Len(locations))

\* confidence = best_val / total
Confidence(best_val, total) == Frac(best_val, total)

\* A plausible slip: <= instead of <
BelowThreshold_Inclusive(confidence, thr) ==
    FracLess(confidence, thr) \/ FracEq(confidence, thr)

\* confidence < threshold
BelowThreshold(confidence, thr) == FracLess(confidence, thr)

\* return "uncertain", confidence, evidence
UncertainResult(confidence, ev) == <<"uncertain", confidence, ev>>

\* return "uncertain", 0.0, []
NoMatchResult == <<"uncertain", Frac(0, 1), <<>>>>

MaxLocs == 3

Candidates == {Oss, oSS, Os, Osse, Ulm, Spa, Lyon}

CandidateLists == UNION {[1..n -> Candidates] : n \in 0..MaxLocs}

\* gazetteers as load_geonames_file builds them; the argument of the voter is
\* any dict, so one of them is built with a country outside the three
GazA == LoadGeonamesFile(<<RowOss, RowSpa, RowUlm, RowLyon>>,
                         {"NL", "BE", "DE", "FR"}, DefaultKeepClasses, FALSE)
GazB == LoadGeonamesFile(<<RowOss, RowOssDE, RowBadName>>,
                         DefaultKeepCountries, DefaultKeepClasses, TRUE)

Gazetteers == {GazA, GazB}

\* 0.6 is the default of the parameter
DefaultThreshold == Frac(3, 5)

Thresholds == {Frac(0, 1), Frac(1, 3), Frac(1, 2), DefaultThreshold, Frac(2, 3), Frac(1, 1)}

MaxCalls == 2

VoteInit ==
    /\ locations \in CandidateLists
    /\ v_gazetteer \in Gazetteers
    /\ threshold \in Thresholds
    /\ votes = <<>>
    /\ evidence = <<>>
    /\ li = 0
    /\ cc = None
    /\ vpc = "start"
    /\ result = None
    /\ calls = 1
    /\ prev_result = None

\* lines 77-78
VoteBegin ==
    /\ vpc = "start"
    /\ votes' = InitVotes
    /\ evidence' = InitEvidence
    /\ li' = 1
    /\ vpc' = "loop"
    /\ UNCHANGED <<calls, prev_result, locations, v_gazetteer, threshold, cc, result>>

\* one iteration of the for loop, lines 84-88
VoteLoop ==
    /\ vpc = "loop"
    /\ li <= Len(locations)
    /\ LET r == CountVote(votes, evidence, locations[li], v_gazetteer)
       IN  /\ votes' = r.votes
           /\ evidence' = r.evidence
           /\ cc' = r.cc
    /\ li' = li + 1
    /\ UNCHANGED <<calls, prev_result, locations, v_gazetteer, threshold, vpc, result>>

\* lines 90-92
ReturnNoMatch ==
    /\ vpc = "loop"
    /\ li > Len(locations)
    /\ NoVotes(SumVotes(votes))
    /\ result' = NoMatchResult
    /\ vpc' = "done"
    /\ UNCHANGED <<calls, prev_result, locations, v_gazetteer, threshold, votes, evidence, li, cc>>

\* lines 90-100
ReturnUncertain ==
    /\ vpc = "loop"
    /\ li > Len(locations)
    /\ ~NoVotes(SumVotes(votes))
    /\ LET best == MaxByValue(VotesItems(votes))
           confidence == Confidence(best[2], SumVotes(votes))
       IN  /\ BelowThreshold(confidence, threshold)
           /\ result' = UncertainResult(confidence, evidence)
    /\ vpc' = "done"
    /\ UNCHANGED <<calls, prev_result, locations, v_gazetteer, threshold, votes, evidence, li, cc>>

\* lines 90-102
ReturnWinner ==
    /\ vpc = "loop"
    /\ li > Len(locations)
    /\ ~NoVotes(SumVotes(votes))
    /\ LET best == MaxByValue(VotesItems(votes))
           confidence == Confidence(best[2], SumVotes(votes))
       IN  /\ ~BelowThreshold(confidence, threshold)
           /\ result' = <<best[1], confidence, evidence>>
    /\ vpc' = "done"
    /\ UNCHANGED <<calls, prev_result, locations, v_gazetteer, threshold, votes, evidence, li, cc>>

\* the caller calls again, with the list, the gazetteer and the threshold it
\* passed before; the function's locals are created anew at lines 77-78
VoteAgain ==
    /\ vpc = "done"
    /\ calls < MaxCalls
    /\ calls' = calls + 1
    /\ prev_result' = result
    /\ result' = None
    /\ vpc' = "start"
    /\ UNCHANGED <<locations, v_gazetteer, threshold, votes, evidence, li, cc>>

VoteIdle ==
    /\ locations = <<>>
    /\ v_gazetteer = <<>>
    /\ threshold = DefaultThreshold
    /\ votes = <<>>
    /\ evidence = <<>>
    /\ li = 0
    /\ cc = None
    /\ vpc = "idle"
    /\ result = None
    /\ calls = 0
    /\ prev_result = None

\* the for loop of lines 84-88 over a whole list, from the given counts
RECURSIVE CountAll(_, _, _, _)
CountAll(v, ev, locs, gaz) ==
    IF locs = <<>> THEN [votes |-> v, evidence |-> ev]
    ELSE LET r == CountVote(v, ev, Head(locs), gaz)
         IN  CountAll(r.votes, r.evidence, Tail(locs), gaz)

\* one whole call, lines 75-102, as a function of its arguments
voting_country_from_locations(locs, gaz, thr) ==
    LET counted == CountAll(InitVotes, <<>>, locs, gaz)
        total == SumVotes(counted.votes)
        best == MaxByValue(VotesItems(counted.votes))
        confidence == Confidence(best[2], total)
    IN  IF NoVotes(total) THEN NoMatchResult
        ELSE IF BelowThreshold(confidence, thr)
             THEN UncertainResult(confidence, counted.evidence)
             ELSE <<best[1], confidence, counted.evidence>>

----------------------------------------------------------------------------
(* geo_filter.py: filtering_articles_by_country, lines 107-125             *)

TARGET_COUNTRIES == {"NL", "BE", "DE"}

\* a local, a return value or an exception that has not been set
Unbound == [unbound |-> TRUE]

\* A plausible slip: the error is raised only when both columns are missing
MissingColumns_Both(df) ==
    "country" \notin df.columns /\ "country_score" \notin df.columns

\* "country" not in df.columns or "country_score" not in df.columns
MissingColumns(df) ==
    "country" \notin df.columns \/ "country_score" \notin df.columns

\* score >= min_conf
ScoreAtLeast(score, min_conf) == ~FracLess(score, min_conf)

\* the mask of line 118, for one row
Mask(r, min_conf) ==
    r["country"] \in TARGET_COUNTRIES /\ ScoreAtLeast(r["country_score"], min_conf)

\* df.loc[mask].copy(): the rows the mask keeps, in their order, as a new table
RECURSIVE SelectRows(_, _)
SelectRows(rows, min_conf) ==
    IF rows = <<>> THEN <<>>
    ELSE IF Mask(Head(rows), min_conf)
         THEN <<Head(rows)>> \o SelectRows(Tail(rows), min_conf)
         ELSE SelectRows(Tail(rows), min_conf)

\* the values of the cells the model uses
ArticleCells == {[country |-> "NL", country_score |-> Frac(1, 1)],
                 [country |-> "BE", country_score |-> Frac(3, 5)],
                 [country |-> "DE", country_score |-> Frac(1, 2)],
                 [country |-> "NL", country_score |-> Frac(1, 3)],
                 [country |-> "uncertain", country_score |-> Frac(1, 2)],
                 [country |-> "uncertain", country_score |-> Frac(0, 1)],
                 [country |-> "FR", country_score |-> Frac(1, 1)]}

MaxTableRows == 2

\* tables with both columns, with one of them and with neither
Tables ==
    UNION {{[columns |-> cols,
             rows |-> [i \in 1..n |->
                          [c \in cols |-> IF c = "title" THEN "t" ELSE cs[i][c]]]] :
               cs \in [1..n -> ArticleCells]} :
           cols \in {{"title", "country", "country_score"}, {"title", "country"},
                     {"title", "country_score"}, {"title"}},
           n \in 0..MaxTableRows}

FilterIdle ==
    /\ f_df = [columns |-> {}, rows |-> <<>>]
    /\ f_min_conf = DefaultThreshold
    /\ f_filtered = Unbound
    /\ f_result = Unbound
    /\ f_error = Unbound
    /\ fpc = "idle"

FilterInit ==
    /\ f_df \in Tables
    /\ f_min_conf \in {Frac(0, 1), Frac(1, 2), DefaultThreshold, Frac(1, 1)}
    /\ f_filtered = Unbound
    /\ f_result = Unbound
    /\ f_error = Unbound
    /\ fpc = "call"

\* lines 115-116
FilterRaiseMissing ==
    /\ fpc = "call"
    /\ MissingColumns(f_df)
    /\ f_error' = [type |-> "ValueError",
                    message |-> "Missing required columns: 'country' and 'country_score'."]
    /\ fpc' = "raised"
    /\ UNCHANGED <<f_df, f_min_conf, f_filtered, f_result>>

\* lines 118-119; reading a column the table does not have raises KeyError
FilterSelect ==
    /\ fpc = "call"
    /\ ~MissingColumns(f_df)
    /\ IF "country" \notin f_df.columns
       THEN f_error' = [type |-> "KeyError", message |-> "country"] /\ fpc' = "raised" /\ UNCHANGED f_filtered
       ELSE IF "country_score" \notin f_df.columns
       THEN f_error' = [type |-> "KeyError", message |-> "country_score"] /\ fpc' = "raised" /\ UNCHANGED f_filtered
       ELSE /\ f_filtered' = [columns |-> f_df.columns,
                               rows |-> SelectRows(f_df.rows, f_min_conf)]
            /\ fpc' = "print"
            /\ UNCHANGED f_error
    /\ UNCHANGED <<f_df, f_min_conf, f_result>>

\* lines 121-123 on a table without rows: kept/total divides by zero
FilterPrintRaise ==
    /\ fpc = "print"
    /\ Len(f_df.rows) = 0
    /\ f_error' = [type |-> "ZeroDivisionError", message |-> "division by zero"]
    /\ fpc' = "raised"
    /\ UNCHANGED <<f_df, f_min_conf, f_filtered, f_result>>

\* lines 121-125
FilterReturn ==
    /\ fpc = "print"
    /\ Len(f_df.rows) # 0
    /\ f_result' = f_filtered
    /\ fpc' = "done"
    /\ UNCHANGED <<f_df, f_min_conf, f_filtered, f_error>>

----------------------------------------------------------------------------
(* sme_filter.py: the labeling functions, lines 21-187                     *)
(* A text is a sequence of words, as left by the cleaning step: words of   *)
(* letters separated by single spaces. On such a text re.search of         *)
(* \b(a|b|...)\b succeeds when one of the alternatives occurs as a run of  *)
(* whole consecutive words. The optional groups of the patterns are        *)
(* written out; e', e^ and e: stand for e acute, e grave and e diaeresis.  *)

ABSTAIN == -1
SME == 1
NOT_SME == 0

\* Python's None as a value of a cell
PyNone == [none |-> TRUE]

\* a Python str, as its words
Str(words) == [str |-> words]

\* x.get(key) on a row
RowGet(x, key) == IF key \in DOMAIN x THEN x[key] ELSE PyNone

\* v or "": None and the empty string are falsy
OrEmpty(v) == IF v = PyNone \/ v = Str(<<>>) THEN Str(<<>>) ELSE v

\* str.lower() on a word; the capitals of the model's words
LowerWord(w) ==
    CASE w = "MKB" -> "mkb"
      [] w = "Kleine" -> "kleine"
      [] w = "Brand" -> "brand"
      [] OTHER -> w

\* text = (x.get("clean_geo") or "").lower()
CleanText(x) ==
    LET s == OrEmpty(RowGet(x, "clean_geo")).str
    IN  [i \in 1..Len(s) |-> LowerWord(s[i])]

\* the alternative alt stands in the text at word i
OccursAt(alt, text, i) ==
    /\ i + Len(alt) - 1 <= Len(text)
    /\ \A k \in 1..Len(alt) : text[i + k - 1] = alt[k]

\* re.search(pattern, text) is not None, the pattern given by its alternatives
Search(alts, text) ==
    \E alt \in alts : \E i \in 1..Len(text) : OccursAt(alt, text, i)

lf_explicit_sme(x) ==
    IF Search(
        {<<"kleine", "bedrijven">>, <<"kleine", "onderneming">>, <<"kmo">>,
         <<"midden-", "en", "kleinbedrijf">>, <<"mkb">>, <<"mkb'er">>,
         <<"mkb'ers">>, <<"mkb-bedrijve">>, <<"mkb-bedrijven">>,
         <<"mkb-ondernemer">>, <<"mkb-ondernemers">>, <<"mkb-sector">>,
         <<"ondernemersloket">>, <<"ondernemersvereniging">>,
         <<"small", "and", "medium", "enterprise">>},
        CleanText(x))
    THEN SME ELSE ABSTAIN

lf_generic_bedrijf(x) ==
    IF Search(
        {<<"bedrijf">>, <<"bedrijffen">>, <<"bedrijfsleven">>,
         <<"bedrijfssector">>, <<"bedrijfstak">>, <<"kleine", "bedrijf">>,
         <<"kleine", "bedrijffen">>, <<"kleinee", "bedrijf">>,
         <<"kleinee", "bedrijffen">>, <<"kleiner", "bedrijf">>,
         <<"kleiner", "bedrijffen">>, <<"kleinere", "bedrijf">>,
         <<"kleinere", "bedrijffen">>, <<"ondernemersloket">>,
         <<"onderneming">>, <<"ondernemingen">>, <<"ondernemingshuis">>,
         <<"organisatie", "gemeente">>,
         <<"organisatie", "in", "de", "gemeente">>,
         <<"organisatie", "in", "de", "provincie">>,
         <<"organisatie", "in", "de", "regio">>,
         <<"organisatie", "provincie">>, <<"organisatie", "regio">>,
         <<"organisaties", "gemeente">>,
         <<"organisaties", "in", "de", "gemeente">>,
         <<"organisaties", "in", "de", "provincie">>,
         <<"organisaties", "in", "de", "regio">>,
         <<"organisaties", "provincie">>, <<"organisaties", "regio">>,
         <<"zaak">>, <<"zaken">>},
        CleanText(x))
    THEN SME ELSE ABSTAIN

lf_general_sector_terms(x) ==
    LET sector_patterns ==
          <<
            {<<"agriculture">>, <<"akkerbouw">>, <<"bosbouw">>, <<"farmer">>,
             <<"farming">>, <<"fishing">>, <<"forestry">>, <<"greenhouse">>,
             <<"kwekerij">>, <<"landbouw">>, <<"pluimvee">>, <<"tuinbouw">>,
             <<"veeteelt">>, <<"visserij">>},
            {<<"afvalbeheer">>, <<"energiebedrijf">>,
             <<"energievoorziening">>, <<"energy", "supply">>, <<"fabriek">>,
             <<"fabrieken">>, <<"industrie">>, <<"manufacturing">>,
             <<"milieudienst">>, <<"productiebedrijf">>, <<"recycling">>,
             <<"waste", "management">>, <<"waterbedrijf">>,
             <<"watermaatschappij">>},
            {<<"aannemer">>, <<"aannemers">>, <<"bouwbedrijf">>,
             <<"bouwnijverheid">>, <<"bouwsector">>, <<"bouwvakker">>,
             <<"constructie">>, <<"installatiebedrijf">>},
            {<<"bakker">>, <<"bakkerij">>, <<"detailhandel">>,
             <<"drogisterij">>, <<"e-commerce">>, <<"groothandel">>,
             <<"handel">>, <<"kapsalon">>, <<"shop">>, <<"slager">>,
             <<"slagerij">>, <<"store">>, <<"supermarkt">>, <<"webwinkel">>,
             <<"winkel">>},
            {<<"distributiecentrum">>, <<"koerier">>, <<"koeriers">>,
             <<"logistiek">>, <<"magazijn">>, <<"opslag">>, <<"transport">>,
             <<"transport", "and", "storage">>, <<"transportbedrijf">>,
             <<"vervoer">>},
            {<<"bar">>, <<"cafe'">>, <<"catering">>, <<"horeca">>,
             <<"hospitality">>, <<"hotel">>, <<"restaurant">>,
             <<"snackbar">>},
            {<<"communicatiebureau">>, <<"cyberbedrijf">>,
             <<"cybersecurity">>, <<"digitale", "veiligheid">>,
             <<"digitale", "weerbaarheid">>, <<"ict">>,
             <<"informatiebeveiliging">>, <<"it">>, <<"mediabedrijf">>,
             <<"software", "company">>, <<"softwarebedrijf">>, <<"telecom">>,
             <<"uitgeverij">>, <<"veilig", "ondernemen">>},
            {<<"accountantskantoor">>, <<"administratiekantoor">>,
             <<"bank">>, <<"boekhoud">>, <<"boekhoudkantoor">>,
             <<"financie:le", "dienstverlening">>, <<"verzekeraar">>,
             <<"verzekeringskantoor">>},
            {<<"makelaar">>, <<"onroerend", "goed">>,
             <<"property", "rental">>, <<"real", "estate">>, <<"vastgoed">>,
             <<"woningcorporatie">>},
            {<<"adviesbureau">>, <<"advocatenkantoor">>,
             <<"communicatieadvies">>, <<"consultancy">>,
             <<"ingenieursbureau">>, <<"juridisch", "advies">>,
             <<"marketingbureau">>,
             <<"specialist", "business", "services">>},
            {<<"basisschool">>, <<"fysiotherapie">>, <<"gezondheidszorg">>,
             <<"kinderopvang">>, <<"kliniek">>, <<"middelbare", "school">>,
             <<"onderwijsinstelling">>, <<"opleidingsinstituut">>,
             <<"praktijk">>, <<"school">>, <<"training">>,
             <<"welzijnszorg">>, <<"ziekenhuis">>, <<"zorginstelling">>},
            {<<"cultureel", "centrum">>, <<"fitnesscentrum">>, <<"museum">>,
             <<"recreatiebedrijf">>, <<"sportschool">>,
             <<"sportvereniging">>, <<"theater">>, <<"vereniging">>}
          >>
    IN  IF \E p \in 1..Len(sector_patterns) : Search(sector_patterns[p], CleanText(x))
        THEN SME ELSE ABSTAIN

lf_generic_entrepreneurship(x) ==
    IF Search(
        {<<"bedrijf", "oprichten">>, <<"bedrijf", "starten">>,
         <<"freelancer">>, <<"freelancers">>, <<"ondernemer">>,
         <<"ondernemers">>, <<"ondernemerschap">>, <<"start-up">>,
         <<"startup">>, <<"startups">>, <<"zelfstandige">>,
         <<"zelfstandigen">>, <<"zzp">>},
        CleanText(x))
    THEN SME ELSE ABSTAIN

lf_international_politics(x) ==
    IF Search(
        {<<"europa">>, <<"nato">>, <<"oorlog">>, <<"russia">>,
         <<"russische", "aanval">>, <<"starmer">>, <<"trump">>, <<"uk">>,
         <<"united", "states">>, <<"usa">>, <<"v.n.">>},
        CleanText(x))
    THEN NOT_SME ELSE ABSTAIN

lf_politics_domestic(x) ==
    IF Search(
        {<<"beleid">>, <<"gemeente">>, <<"minister">>, <<"parlement">>,
         <<"partij">>, <<"partijleider">>, <<"politiek">>, <<"raad">>,
         <<"stemmen">>, <<"verkiezing">>},
        CleanText(x))
    THEN NOT_SME ELSE ABSTAIN

lf_government_only(x) ==
    IF Search(
        {<<"aanstelling">>, <<"algemene", "bestuursdienst">>, <<"benoemd">>,
         <<"benoeming">>, <<"bestuurder">>, <<"carrie^re">>, <<"chief">>,
         <<"departement">>, <<"directeur">>, <<"directie">>, <<"functie">>,
         <<"justitie">>, <<"leidinggevende">>, <<"manager">>,
         <<"ministerie">>, <<"nieuwe", "positie">>, <<"officer">>,
         <<"plaatsvervangend">>, <<"vacature">>, <<"veiligheid">>},
        CleanText(x))
    THEN NOT_SME ELSE ABSTAIN

lf_accidents_crime(x) ==
    IF Search(
        {<<"aanrijding">>, <<"botsing">>, <<"brand">>, <<"criminaliteit">>,
         <<"dood">>, <<"drama">>, <<"explosie">>, <<"moord">>, <<"ongeluk">>,
         <<"ramp">>, <<"rellen">>, <<"verkrachting">>},
        CleanText(x))
    THEN NOT_SME ELSE ABSTAIN

lf_sme_cybercrime(x) ==
    IF /\ Search(
            {<<"bedrijf">>, <<"mkb">>, <<"ondernemer">>, <<"organisatie">>,
             <<"zaak">>},
            CleanText(x))
       /\ Search(
            {<<"cyber">>, <<"cybercrime">>, <<"digitale">>, <<"hack">>,
             <<"phishing">>, <<"ransomware">>, <<"veiligheid">>,
             <<"weerbaarheid">>},
            CleanText(x))
    THEN SME ELSE ABSTAIN

lf_sports_entertainment(x) ==
    IF Search(
        {<<"concert">>, <<"festival">>, <<"film">>, <<"honkbal">>,
         <<"muziek">>, <<"serie">>, <<"sport">>, <<"theater">>,
         <<"voetbal">>, <<"wedstrijden">>},
        CleanText(x))
    THEN NOT_SME ELSE ABSTAIN

\* A plausible slip: the number of patterns found is returned in place of a label
lf_business_crime_Count(x) ==
    (IF Search(
            {<<"adviesbureau">>, <<"bedrijf">>, <<"directeur">>, <<"mkb">>,
             <<"ondernemer">>, <<"onderneming">>, <<"werkgever">>,
             <<"zaak">>},
            CleanText(x)) THEN 1 ELSE 0)
    + (IF Search(
            {<<"aangifte">>, <<"afpersing">>, <<"corruptie">>,
             <<"diefstal">>, <<"fraude">>, <<"onderzoek", "naar">>,
             <<"oplichting">>, <<"valsheid", "in", "geschrifte">>,
             <<"verduistering">>, <<"witwassen">>},
            CleanText(x)) THEN 1 ELSE 0)

lf_business_crime(x) ==
    IF /\ Search(
            {<<"adviesbureau">>, <<"bedrijf">>, <<"directeur">>, <<"mkb">>,
             <<"ondernemer">>, <<"onderneming">>, <<"werkgever">>,
             <<"zaak">>},
            CleanText(x))
       /\ Search(
            {<<"aangifte">>, <<"afpersing">>, <<"corruptie">>,
             <<"diefstal">>, <<"fraude">>, <<"onderzoek", "naar">>,
             <<"oplichting">>, <<"valsheid", "in", "geschrifte">>,
             <<"verduistering">>, <<"witwassen">>},
            CleanText(x))
    THEN SME ELSE ABSTAIN

\* A plausible slip: the test for a bankruptcy term is left out
lf_bankruptcy_only_NoCrime(x) ==
    IF ~Search(
            {<<"aangifte">>, <<"corruptie">>, <<"diefstal">>, <<"fraude">>,
             <<"onderzoek">>, <<"oplichting">>, <<"verduistering">>,
             <<"witwassen">>},
            CleanText(x))
    THEN NOT_SME ELSE ABSTAIN

lf_bankruptcy_only(x) ==
    IF /\ Search(
            {<<"curator">>, <<"doorstart">>, <<"failliet">>,
             <<"faillissement">>, <<"herstructurering">>},
            CleanText(x))
       /\ ~Search(
            {<<"aangifte">>, <<"corruptie">>, <<"diefstal">>, <<"fraude">>,
             <<"onderzoek">>, <<"oplichting">>, <<"verduistering">>,
             <<"witwassen">>},
            CleanText(x))
    THEN NOT_SME ELSE ABSTAIN

\* calling a labeling function given by its name
CallLF(lf, x) ==
    CASE lf = "lf_explicit_sme" -> lf_explicit_sme(x)
      [] lf = "lf_generic_bedrijf" -> lf_generic_bedrijf(x)
      [] lf = "lf_general_sector_terms" -> lf_general_sector_terms(x)
      [] lf = "lf_generic_entrepreneurship" -> lf_generic_entrepreneurship(x)
      [] lf = "lf_international_politics" -> lf_international_politics(x)
      [] lf = "lf_politics_domestic" -> lf_politics_domestic(x)
      [] lf = "lf_government_only" -> lf_government_only(x)
      [] lf = "lf_accidents_crime" -> lf_accidents_crime(x)
      [] lf = "lf_sme_cybercrime" -> lf_sme_cybercrime(x)
      [] lf = "lf_sports_entertainment" -> lf_sports_entertainment(x)
      [] lf = "lf_business_crime" -> lf_business_crime(x)
      [] lf = "lf_bankruptcy_only" -> lf_bankruptcy_only(x)

----------------------------------------------------------------------------
(* sme_filter.py: run_snorkel, lines 194-231                               *)
(* PandasLFApplier and LabelModel are classes of the snorkel library: the  *)
(* model takes from them what run_snorkel relies on, the shape of their    *)
(* results, and leaves the values the label model computes open.           *)

\* a list argument that was given
List(s) == [list |-> s]

\* the list of lines 200-213
DefaultLFs ==
    <<"lf_explicit_sme", "lf_generic_bedrijf", "lf_general_sector_terms",
      "lf_generic_entrepreneurship", "lf_accidents_crime", "lf_politics_domestic",
      "lf_sme_cybercrime", "lf_sports_entertainment", "lf_business_crime",
      "lf_government_only">>

\* every labeling function the module defines
AllLFs ==
    <<"lf_explicit_sme", "lf_generic_bedrijf", "lf_general_sector_terms",
      "lf_generic_entrepreneurship", "lf_international_politics",
      "lf_politics_domestic", "lf_government_only", "lf_accidents_crime",
      "lf_sme_cybercrime", "lf_sports_entertainment", "lf_business_crime",
      "lf_bankruptcy_only">>

\* lines 199-213
LFsOrDefault(lfs) == IF lfs = PyNone THEN DefaultLFs ELSE lfs.list

\* applier.apply(df): one row of votes per article, one vote per function
ApplyLFs(lfs, df) ==
    [i \in 1..Len(df.rows) |-> [j \in 1..Len(lfs) |-> CallLF(lfs[j], df.rows[i])]]

\* df[name] = values: the column is added (or replaced) in place
SetColumn(df, name, values) ==
    [columns |-> df.columns \cup {name},
     rows |-> [i \in 1..Len(df.rows) |->
                  [c \in (DOMAIN df.rows[i]) \cup {name} |->
                      IF c = name THEN values[i] ELSE df.rows[i][c]]]]

\* A plausible slip: > instead of >=
SmeLabel_Strict(probability, min_conf) ==
    IF FracLess(min_conf, probability) THEN 1 ELSE 0

\* (probability >= min_conf).astype(int)
SmeLabel(probability, min_conf) ==
    IF ~FracLess(probability, min_conf) THEN 1 ELSE 0

\* the clean_geo cells of the articles
CleanGeoCells ==
    {PyNone, Str(<<>>), Str(<<"MKB">>), Str(<<"bedrijf", "phishing">>),
     Str(<<"horeca">>), Str(<<"ondernemer", "fraude">>), Str(<<"oorlog">>),
     Str(<<"minister", "directeur">>), Str(<<"Brand", "voetbal">>),
     Str(<<"failliet">>), Str(<<"Kleine", "bedrijven">>)}

MaxArticles == 2

\* tables of articles, with and without the clean_geo column
ArticleTables ==
    UNION {{[columns |-> {"title", "clean_geo"},
             rows |-> [i \in 1..n |-> [c \in {"title", "clean_geo"} |->
                                          IF c = "title" THEN Str(<<"t">>) ELSE cs[i]]]] :
               cs \in [1..n -> CleanGeoCells]} : n \in 0..MaxArticles}
    \cup {[columns |-> {"title"},
           rows |-> [i \in 1..n |-> [c \in {"title"} |-> Str(<<"t">>)]]] :
             n \in 0..MaxArticles}

\* probabilities the label model may give
Probabilities == {Frac(2, 5), Frac(1, 2), Frac(3, 5)}

SmeIdle ==
    /\ s_df = [columns |-> {}, rows |-> <<>>]
    /\ s_lfs = PyNone
    /\ s_min_conf = DefaultThreshold
    /\ s_L = Unbound
    /\ s_label_model = Unbound
    /\ s_probs = Unbound
    /\ s_result = Unbound
    /\ s_error = Unbound
    /\ spc = "idle"

SmeInit ==
    /\ s_df \in ArticleTables
    /\ s_lfs \in {PyNone, List(AllLFs)}
    /\ s_min_conf \in {Frac(1, 2), DefaultThreshold}   \* pre_process.py:19, line 194
    /\ s_L = Unbound
    /\ s_label_model = Unbound
    /\ s_probs = Unbound
    /\ s_result = Unbound
    /\ s_error = Unbound
    /\ spc = "call"

\* lines 199-220: the default list, the vote matrix, the coverage printout
SnorkelApply ==
    /\ spc = "call"
    /\ s_lfs' = List(LFsOrDefault(s_lfs))
    /\ s_L' = [matrix |-> ApplyLFs(LFsOrDefault(s_lfs), s_df)]
    /\ spc' = "fit"
    /\ UNCHANGED <<s_df, s_min_conf, s_label_model, s_probs, s_result, s_error>>

\* lines 223-224, the library returns
SnorkelFit ==
    /\ spc = "fit"
    /\ s_label_model' = [cardinality |-> 2, fitted |-> TRUE]
    /\ spc' = "predict"
    /\ UNCHANGED <<s_df, s_lfs, s_min_conf, s_L, s_probs, s_result, s_error>>

\* lines 223-224, the library raises: nothing in run_snorkel catches it
SnorkelFitRaise ==
    /\ spc = "fit"
    /\ s_error' = [type |-> "Exception", message |-> "LabelModel.fit"]
    /\ spc' = "raised"
    /\ UNCHANGED <<s_df, s_lfs, s_min_conf, s_L, s_label_model, s_probs, s_result>>

\* lines 227-228: rows with the same votes get the same probability
SnorkelPredict ==
    /\ spc = "predict"
    /\ \E p \in [{s_L.matrix[i] : i \in 1..Len(s_L.matrix)} -> Probabilities] :
          /\ s_probs' = [values |-> [i \in 1..Len(s_L.matrix) |-> p[s_L.matrix[i]]]]
          /\ s_df' = SetColumn(s_df, "sme_probability", s_probs'.values)
    /\ spc' = "label"
    /\ UNCHANGED <<s_lfs, s_min_conf, s_L, s_label_model, s_result, s_error>>

\* lines 229-231
SnorkelLabel ==
    /\ spc = "label"
    /\ s_df' = SetColumn(s_df, "sme_label",
                         [i \in 1..Len(s_df.rows) |->
                             SmeLabel(s_df.rows[i]["sme_probability"], s_min_conf)])
    /\ s_result' = [df |-> s_df', label_model |-> s_label_model]
    /\ spc' = "done"
    /\ UNCHANGED <<s_lfs, s_min_conf, s_L, s_label_model, s_probs, s_error>>

----------------------------------------------------------------------------
(* scrape_nos_feeds.py: main, lines 191-240                                *)
(* A feed is the list of its entries, an entry the URL classify_links      *)
(* chooses for it ("" when it has none). Whether fetching an entry raises, *)
(* when a keyboard interrupt arrives and whether writing the outputs       *)
(* fails is open. A limit of 0 stands for None: both are falsy.            *)

\* A plausible slip: the URL is never remembered
AddSeen_Never(seen, url) == seen

\* seen_urls.add(url), line 214
AddSeen(seen, url) == seen \cup {url}

\* A plausible slip: no try/finally, the interrupt leaves main at once
InterruptTarget_Exit == "end"

\* where a KeyboardInterrupt raised inside the try block leads: lines 226-229
InterruptTarget == "finally"

MaxEntries == 2

NosIdle ==
    /\ n_feeds = <<>>
    /\ n_max_feeds = 0
    /\ n_max_items = 0
    /\ n_i = 0
    /\ n_j = 0
    /\ n_subset = <<>>
    /\ n_rows = <<>>
    /\ n_seen_urls = {}
    /\ n_fetched = <<>>
    /\ n_interrupt = [raised |-> FALSE]
    /\ n_written = [attempted |-> FALSE]
    /\ npc = "idle"

\* lines 193-195, for one or two feeds of up to MaxEntries entries
NosInit ==
    /\ n_feeds \in UNION {[1..k -> UNION {[1..n -> {"", "a", "b"}] : n \in 0..MaxEntries}] :
                             k \in 1..2}
    /\ n_max_feeds \in {0, 1}
    /\ n_max_items \in {0, 1}
    /\ n_i = 1
    /\ n_j = 0
    /\ n_subset = <<>>
    /\ n_rows = <<>>
    /\ n_seen_urls = {}
    /\ n_fetched = <<>>
    /\ n_interrupt = [raised |-> FALSE]
    /\ n_written = [attempted |-> FALSE]
    /\ npc = "feed"

\* lines 198-208: the head of the feed loop
NosFeed ==
    /\ npc = "feed"
    /\ IF n_i > Len(n_feeds) \/ (n_max_feeds # 0 /\ n_i > n_max_feeds)
       THEN npc' = "finally" /\ UNCHANGED <<n_i, n_j, n_subset>>
       ELSE IF n_feeds[n_i] = <<>>
       THEN n_i' = n_i + 1 /\ UNCHANGED <<n_j, n_subset, npc>>
       ELSE /\ n_subset' = IF n_max_items # 0 /\ n_max_items < Len(n_feeds[n_i])
                           THEN SubSeq(n_feeds[n_i], 1, n_max_items)
                           ELSE n_feeds[n_i]
            /\ n_j' = 1
            /\ npc' = "entry"
            /\ UNCHANGED n_i
    /\ UNCHANGED <<n_feeds, n_max_feeds, n_max_items, n_rows, n_seen_urls, n_fetched,
                   n_interrupt, n_written>>

\* lines 209-214: the head of the entry loop and the dedupe test
NosEntry ==
    /\ npc = "entry"
    /\ IF n_j > Len(n_subset)
       THEN n_i' = n_i + 1 /\ npc' = "feed" /\ UNCHANGED <<n_j, n_seen_urls>>
       ELSE IF n_subset[n_j] = "" \/ n_subset[n_j] \in n_seen_urls
       THEN n_j' = n_j + 1 /\ UNCHANGED <<n_i, n_seen_urls, npc>>
       ELSE /\ n_seen_urls' = AddSeen(n_seen_urls, n_subset[n_j])
            /\ npc' = "fetch"
            /\ UNCHANGED <<n_i, n_j>>
    /\ UNCHANGED <<n_feeds, n_max_feeds, n_max_items, n_subset, n_rows, n_fetched,
                   n_interrupt, n_written>>

\* lines 216-222: entry_to_row fetches the page; a row is added unless it raises
NosFetch ==
    /\ npc = "fetch"
    /\ n_fetched' = Append(n_fetched, n_subset[n_j])
    /\ \E raises \in BOOLEAN :
          n_rows' = IF raises THEN n_rows
                    ELSE Append(n_rows, [feed |-> n_i, url |-> n_subset[n_j]])
    /\ npc' = "sleep"
    /\ UNCHANGED <<n_feeds, n_max_feeds, n_max_items, n_i, n_j, n_subset, n_seen_urls,
                   n_interrupt, n_written>>

\* line 224
NosSleep ==
    /\ npc = "sleep"
    /\ n_j' = n_j + 1
    /\ npc' = "entry"
    /\ UNCHANGED <<n_feeds, n_max_feeds, n_max_items, n_i, n_subset, n_rows, n_seen_urls,
                   n_fetched, n_interrupt, n_written>>

\* a KeyboardInterrupt inside the try block: between entries, during a fetch
\* (the row is not added) or during the sleep; lines 219-220 and 226-227
NosInterrupt ==
    /\ npc \in {"feed", "entry", "fetch", "sleep"}
    /\ n_interrupt' = [raised |-> TRUE, at |-> npc, rows |-> n_rows]
    /\ npc' = InterruptTarget
    /\ UNCHANGED <<n_feeds, n_max_feeds, n_max_items, n_i, n_j, n_subset, n_rows,
                   n_seen_urls, n_fetched, n_written>>

\* lines 229-240: the outputs are written when there are rows; a failure of
\* to_csv leaves nothing, a failure of json.dump leaves only the CSV
NosFinally ==
    /\ npc = "finally"
    /\ IF n_rows = <<>>
       THEN UNCHANGED n_written
       ELSE \E failure \in {"none", "csv", "json"} :
               n_written' = [attempted |-> TRUE, failure |-> failure,
                             csv |-> IF failure = "csv" THEN <<>> ELSE n_rows,
                             json |-> IF failure = "none" THEN n_rows ELSE <<>>]
    /\ npc' = "end"
    /\ UNCHANGED <<n_feeds, n_max_feeds, n_max_items, n_i, n_j, n_subset, n_rows,
                   n_seen_urls, n_fetched, n_interrupt>>

----------------------------------------------------------------------------
(* geo_filter.py: build_geo_df, lines 130-152                              *)
(* The articles are taken after step 3 (line 145): each row carries the    *)
(* candidate locations spaCy found in it. The file holds at least one      *)
(* article.                                                                *)

MaxGeoRows == 2

\* df["locations"] after line 145, for the articles of the model
GeoLocations == {<<>>, <<Osse>>, <<Oss>>, <<Oss, Ulm>>, <<Oss, Oss, Ulm>>,
                 <<Spa, Ulm, Oss>>}

\* the module-level gazetteer of lines 61-68
GeoGazetteer == GazA

\* line 148: voting_country_from_locations(locs, gazetteer), the threshold
\* parameter left at its default
VoteOfArticle(locs) ==
    voting_country_from_locations(locs, GeoGazetteer, DefaultThreshold)

GeoIdle ==
    /\ g_locations = <<>>
    /\ g_min_conf = DefaultThreshold
    /\ g_df = Unbound
    /\ g_result = Unbound
    /\ gpc = "idle"

GeoInit ==
    /\ g_locations \in UNION {[1..n -> GeoLocations] : n \in 1..MaxGeoRows}
    /\ g_min_conf \in {Frac(0, 1), Frac(1, 3), Frac(1, 2), DefaultThreshold,
                       Frac(2, 3), Frac(1, 1)}
    /\ g_df = Unbound
    /\ g_result = Unbound
    /\ gpc = "vote"

\* lines 148-149: the three columns are set from the vote of each article
GeoVote ==
    /\ gpc = "vote"
    /\ g_df' = [columns |-> {"locations", "country", "country_score",
                              "country_evidence"},
                rows |-> [i \in 1..Len(g_locations) |->
                             LET res == VoteOfArticle(g_locations[i])
                             IN  [index |-> i,
                                  locations |-> g_locations[i],
                                  country |-> res[1],
                                  country_score |-> res[2],
                                  country_evidence |-> res[3]]]]
    /\ gpc' = "filter"
    /\ UNCHANGED <<g_locations, g_min_conf, g_result>>

\* line 152: filtering_articles_by_country(df, min_conf=min_conf); both
\* columns are there and the table has rows, so the call returns
GeoFilter ==
    /\ gpc = "filter"
    /\ ~MissingColumns(g_df)
    /\ Len(g_df.rows) # 0
    /\ g_result' = [columns |-> g_df.columns,
                    rows |-> SelectRows(g_df.rows, g_min_conf)]
    /\ gpc' = "done"
    /\ UNCHANGED <<g_locations, g_min_conf, g_df>>

----------------------------------------------------------------------------
(* merge_jsons.py: merge_json_files, lines 12-43                           *)
(* The content of a file is chosen when the file is opened. An item of a   *)
(* file carries the place it was read from, which stands for the rest of   *)
(* its fields.                                                             *)

MaxJsonFiles == 2
MaxJsonItems == 2

\* a value of "url" that cannot be hashed (a JSON array with elements)
Unhashable == [list |-> TRUE]

\* an element of a file's list that is not a JSON object
NotDict == [notdict |-> TRUE]

\* item.get("url") of the items of the model: missing or null, "", two URLs
\* and an array
UrlValues == {PyNone, Str(<<>>), Str(<<"a">>), Str(<<"b">>), Unhashable}

\* the elements of a file's list: the objects, by their "url", and a
\* non-object
ItemValues == UrlValues \cup {NotDict}

\* the item read at position k of file fi
MkItem(v, fi, k) ==
    IF v = NotDict THEN v ELSE [url |-> v, file |-> fi, pos |-> k]

\* what json.load gives for file fi: an object, a list, or another value
JsonData(fi) ==
    {[kind |-> "dict", data |-> <<MkItem(u, fi, 1)>>] : u \in UrlValues}
        \cup {[kind |-> "other", data |-> <<>>]}
        \cup UNION {{[kind |-> "list",
                      data |-> [k \in 1..n |-> MkItem(vs[k], fi, k)]] :
                        vs \in [1..n -> ItemValues]} : n \in 0..MaxJsonItems}

\* bool(url): None and "" are false
Truthy(url) == url # PyNone /\ url # Str(<<>>)

\* A plausible slip: the URL is not looked up among the seen ones
IsNewUrl_Always(url, seen) == Truthy(url)

\* url and url not in seen_urls
IsNewUrl(url, seen) == Truthy(url) /\ url \notin seen

MjIdle ==
    /\ j_nfiles = 0
    /\ j_fi = 0
    /\ j_data = <<>>
    /\ j_ii = 0
    /\ j_all = <<>>
    /\ j_seen = {}
    /\ j_skipped = {}
    /\ j_out = Unbound
    /\ jpc = "idle"

\* lines 13-17
MjInit ==
    /\ j_nfiles \in 0..MaxJsonFiles
    /\ j_fi = 0
    /\ j_data = <<>>
    /\ j_ii = 0
    /\ j_all = <<>>
    /\ j_seen = {}
    /\ j_skipped = {}
    /\ j_out = Unbound
    /\ jpc = "file"

\* lines 19-22 and 34-35: the next file cannot be opened or parsed
MjOpenFails ==
    /\ jpc = "file"
    /\ j_fi < j_nfiles
    /\ j_fi' = j_fi + 1
    /\ j_skipped' = j_skipped \cup {j_fi + 1}
    /\ UNCHANGED <<j_nfiles, j_data, j_ii, j_all, j_seen, j_out, jpc>>

\* lines 19-27: the next file is loaded; an object becomes a list of one,
\* a value that is neither object nor list is passed over
MjOpen ==
    /\ jpc = "file"
    /\ j_fi < j_nfiles
    /\ j_fi' = j_fi + 1
    /\ \E d \in JsonData(j_fi + 1) :
          IF d.kind = "other"
          THEN UNCHANGED <<j_data, j_ii, jpc>>
          ELSE j_data' = d.data /\ j_ii' = 0 /\ jpc' = "item"
    /\ UNCHANGED <<j_nfiles, j_all, j_seen, j_skipped, j_out>>

\* lines 29-35: one round of the item loop; item.get on a non-object and
\* the lookup of an unhashable url raise, and the except clause goes on
\* with the next file
MjItem ==
    /\ jpc = "item"
    /\ IF j_ii = Len(j_data)
       THEN jpc' = "file" /\ UNCHANGED <<j_ii, j_all, j_seen>>
       ELSE LET item == j_data[j_ii + 1]
            IN  IF item = NotDict \/ item.url = Unhashable
                THEN jpc' = "file" /\ UNCHANGED <<j_ii, j_all, j_seen>>
                ELSE /\ IF IsNewUrl(item.url, j_seen)
                        THEN /\ j_seen' = j_seen \cup {item.url}
                             /\ j_all' = Append(j_all, item)
                        ELSE UNCHANGED <<j_all, j_seen>>
                     /\ j_ii' = j_ii + 1
                     /\ UNCHANGED jpc
    /\ UNCHANGED <<j_nfiles, j_fi, j_data, j_skipped, j_out>>

\* lines 37-43: the merged list is written; open or json.dump may raise
MjWrite ==
    /\ jpc = "file"
    /\ j_fi = j_nfiles
    /\ \E ok \in BOOLEAN :
          IF ok THEN j_out' = j_all /\ jpc' = "end"
          ELSE UNCHANGED j_out /\ jpc' = "raised"
    /\ UNCHANGED <<j_nfiles, j_fi, j_data, j_ii, j_all, j_seen, j_skipped>>

----------------------------------------------------------------------------
(* dashboard.py: _parse_to_date and _clamp_date_range, lines 18-38         *)
(* A day is a number. A Python value is a record with its type: a date, a  *)
(* datetime (a subclass of date), a str that datetime.fromisoformat        *)
(* accepts or not, a list or tuple of values, or something else.           *)

MaxDay == 2

Days == 0..MaxDay

Date(d) == [type |-> "date", day |-> d]

Tuple(items) == [type |-> "tuple", items |-> items]

\* the values the elements of the argument take
ElementValues ==
    {Date(d) : d \in Days}
        \cup {[type |-> "datetime", day |-> d] : d \in Days}
        \cup {[type |-> "str", iso |-> TRUE, day |-> d] : d \in Days}
        \cup {[type |-> "str", iso |-> FALSE], [type |-> "int"]}

\* the values of the argument: pairs as tuple or list, sequences of other
\* lengths, and values that are no sequence
ClampValues ==
    {[type |-> t, items |-> <<a, b>>] :
        t \in {"tuple", "list"}, a \in ElementValues, b \in ElementValues}
        \cup {Tuple(<<>>), Tuple(<<Date(0)>>), Tuple(<<Date(0), Date(0), Date(0)>>)}
        \cup ElementValues

\* lines 18-26; isinstance(x, date) holds for a datetime as well
_parse_to_date(x, today) ==
    IF x.type \in {"date", "datetime"} THEN x
    ELSE IF x.type = "str" /\ x.iso THEN Date(x.day)
    ELSE Date(today)

\* not isinstance(value, (list, tuple)) or len(value) != 2
NotAPair(value) ==
    value.type \notin {"list", "tuple"} \/ Len(value.items) # 2

\* lines 32-35 for one end of the range
ClampDay(d, min_d, max_d) ==
    LET d1 == IF d < min_d THEN min_d ELSE d
    IN  IF d1 > max_d THEN max_d ELSE d1

\* lines 28-38; the order comparison of a datetime with a date raises
\* TypeError
_clamp_date_range(min_d, max_d, value, today) ==
    IF NotAPair(value) THEN [raised |-> FALSE, value |-> Tuple(<<Date(min_d), Date(max_d)>>)]
    ELSE LET sd == _parse_to_date(value.items[1], today)
             ed == _parse_to_date(value.items[2], today)
         IN  IF sd.type = "datetime" \/ ed.type = "datetime"
             THEN [raised |-> TRUE, type |-> "TypeError"]
             ELSE LET s == ClampDay(sd.day, min_d, max_d)
                      e == ClampDay(ed.day, min_d, max_d)
                  IN  IF s > e
                      THEN [raised |-> FALSE, value |-> Tuple(<<Date(min_d), Date(max_d)>>)]
                      ELSE [raised |-> FALSE, value |-> Tuple(<<Date(s), Date(e)>>)]

ClampIdle ==
    /\ c_min = 0
    /\ c_max = 0
    /\ c_today = 0
    /\ c_value = Tuple(<<>>)
    /\ c_result = Unbound
    /\ c_again = Unbound
    /\ cpc = "idle"

ClampInit ==
    /\ c_min \in Days
    /\ c_max \in Days
    /\ c_min <= c_max
    /\ c_today \in Days
    /\ c_value \in ClampValues
    /\ c_result = Unbound
    /\ c_again = Unbound
    /\ cpc = "call"

\* a call that returns
ClampReturn ==
    /\ cpc = "call"
    /\ ~_clamp_date_range(c_min, c_max, c_value, c_today).raised
    /\ c_result' = _clamp_date_range(c_min, c_max, c_value, c_today)
    /\ cpc' = "done"
    /\ UNCHANGED <<c_min, c_max, c_today, c_value, c_again>>

\* a call that raises
ClampRaise ==
    /\ cpc = "call"
    /\ _clamp_date_range(c_min, c_max, c_value, c_today).raised
    /\ c_result' = _clamp_date_range(c_min, c_max, c_value, c_today)
    /\ cpc' = "raised"
    /\ UNCHANGED <<c_min, c_max, c_today, c_value, c_again>>

\* the range stored at line 204 is clamped again at line 188 of the next run
ClampAgain ==
    /\ cpc = "done"
    /\ c_again' = _clamp_date_range(c_min, c_max, c_result.value, c_today)
    /\ cpc' = "again"
    /\ UNCHANGED <<c_min, c_max, c_today, c_value, c_result>>

----------------------------------------------------------------------------
(* webScrapers/URL_scrapers.py: security_nl_historical, lines 19-94        *)
(* The archive has h_npages pages of posts; a page after the last has no   *)
(* posts. The posts of a page are met one by one. Dates are days. The      *)
(* pages after the last are all alike, so the page counter stops at the    *)
(* first of them. date_str is taken to be in the format of line 23.        *)

MaxPages == 2
MaxPosts == 2

\* the posts of a page: without a date div, with a date that strptime
\* rejects, or dated, with a title link that is relative, absolute or missing
Posts ==
    {[dated |-> FALSE, why |-> w] : w \in {"no date div", "bad date"}}
        \cup {[dated |-> TRUE, day |-> d, link |-> l] :
                 d \in Days, l \in {"relative", "absolute", "none"}}

\* page += 1
NextPage(page) == IF page > h_npages THEN page ELSE page + 1

\* post_date < date
BeforeCutOff(post_date, date) == post_date < date

HistIdle ==
    /\ h_npages = 0
    /\ h_cutoff = 0
    /\ h_page = 0
    /\ h_nposts = 0
    /\ h_pi = 0
    /\ h_articles = <<>>
    /\ h_within_date = FALSE
    /\ h_full_text = FALSE
    /\ h_error = Unbound
    /\ hpc = "idle"

\* lines 20-23
HistInit ==
    /\ h_npages \in 0..MaxPages
    /\ h_cutoff \in Days
    /\ h_page = 1
    /\ h_nposts = 0
    /\ h_pi = 0
    /\ h_articles = <<>>
    /\ h_within_date = TRUE
    /\ h_full_text = FALSE
    /\ h_error = Unbound
    /\ hpc = "while"

\* lines 24-36: the page is fetched and its posts are found
HistFetch ==
    /\ hpc = "while"
    /\ h_within_date
    /\ h_nposts' \in (IF h_page > h_npages THEN {0} ELSE 0..MaxPosts)
    /\ h_pi' = 0
    /\ hpc' = "posts"
    /\ UNCHANGED <<h_npages, h_cutoff, h_page, h_articles, h_within_date,
                   h_full_text, h_error>>

\* lines 28-29: requests.get or raise_for_status raises
HistFetchRaise ==
    /\ hpc = "while"
    /\ h_within_date
    /\ h_error' = [type |-> "RequestException"]
    /\ hpc' = "raised"
    /\ UNCHANGED <<h_npages, h_cutoff, h_page, h_nposts, h_pi, h_articles,
                   h_within_date, h_full_text>>

\* lines 39-88: one round of the post loop. An absolute link leaves
\* full_text as it was, which is unbound before the first relative link
HistPost ==
    /\ hpc = "posts"
    /\ h_pi < h_nposts
    /\ \E post \in Posts :
          IF ~post.dated
          THEN /\ h_pi' = h_pi + 1
               /\ UNCHANGED <<h_page, h_articles, h_within_date, h_full_text,
                              h_error, hpc>>
          ELSE IF BeforeCutOff(post.day, h_cutoff)
          THEN /\ h_within_date' = FALSE
               /\ h_page' = NextPage(h_page)
               /\ hpc' = "while"
               /\ UNCHANGED <<h_pi, h_articles, h_full_text, h_error>>
          ELSE IF post.link = "none"
          THEN /\ h_pi' = h_pi + 1
               /\ UNCHANGED <<h_page, h_articles, h_within_date, h_full_text,
                              h_error, hpc>>
          ELSE IF post.link = "absolute" /\ ~h_full_text
          THEN /\ h_error' = [type |-> "UnboundLocalError"]
               /\ hpc' = "raised"
               /\ UNCHANGED <<h_pi, h_page, h_articles, h_within_date, h_full_text>>
          ELSE /\ h_full_text' = TRUE
               /\ h_articles' = Append(h_articles, [date |-> post.day])
               /\ h_pi' = h_pi + 1
               /\ UNCHANGED <<h_page, h_within_date, h_error, hpc>>
    /\ UNCHANGED <<h_npages, h_cutoff, h_nposts>>

\* line 92 after the last post of the page
HistPageEnd ==
    /\ hpc = "posts"
    /\ h_pi = h_nposts
    /\ h_page' = NextPage(h_page)
    /\ hpc' = "while"
    /\ UNCHANGED <<h_npages, h_cutoff, h_nposts, h_pi, h_articles, h_within_date,
                   h_full_text, h_error>>

\* lines 25 and 94: within_date is false
HistReturn ==
    /\ hpc = "while"
    /\ ~h_within_date
    /\ hpc' = "returned"
    /\ UNCHANGED <<h_npages, h_cutoff, h_page, h_nposts, h_pi, h_articles,
                   h_within_date, h_full_text, h_error>>

----------------------------------------------------------------------------
(* The specifications: one per unit of the program                         *)

\* voting_country_from_locations, for every argument triple
VoteNext ==
    \/ VoteBegin /\ UNCHANGED <<loadVars, mergeVars, filterVars, smeVars, nosVars, geoVars, mjVars, clampVars, histVars>>
    \/ VoteLoop /\ UNCHANGED <<loadVars, mergeVars, filterVars, smeVars, nosVars, geoVars, mjVars, clampVars, histVars>>
    \/ ReturnNoMatch /\ UNCHANGED <<loadVars, mergeVars, filterVars, smeVars, nosVars, geoVars, mjVars, clampVars, histVars>>
    \/ ReturnUncertain /\ UNCHANGED <<loadVars, mergeVars, filterVars, smeVars, nosVars, geoVars, mjVars, clampVars, histVars>>
    \/ ReturnWinner /\ UNCHANGED <<loadVars, mergeVars, filterVars, smeVars, nosVars, geoVars, mjVars, clampVars, histVars>>
    \/ VoteAgain /\ UNCHANGED <<loadVars, mergeVars, filterVars, smeVars, nosVars, geoVars, mjVars, clampVars, histVars>>

InitVote == VoteInit /\ LoadIdle /\ MergeIdle /\ FilterIdle /\ SmeIdle /\ NosIdle /\ GeoIdle /\ MjIdle /\ ClampIdle /\ HistIdle

SpecVote == InitVote /\ [][VoteNext]_vars

\* load_geonames_file, for every argument triple and every file
LoadNext ==
    \/ LoadRow /\ UNCHANGED <<voteVars, mergeVars, filterVars, smeVars, nosVars, geoVars, mjVars, clampVars, histVars>>
    \/ LoadReturn /\ UNCHANGED <<voteVars, mergeVars, filterVars, smeVars, nosVars, geoVars, mjVars, clampVars, histVars>>

InitLoad == LoadInit /\ VoteIdle /\ MergeIdle /\ FilterIdle /\ SmeIdle /\ NosIdle /\ GeoIdle /\ MjIdle /\ ClampIdle /\ HistIdle

SpecLoad == InitLoad /\ [][LoadNext]_vars

\* the import of geo_filter.py, for every content of the three files
MergeNext ==
    \/ LoadNL /\ UNCHANGED <<voteVars, loadVars, filterVars, smeVars, nosVars, geoVars, mjVars, clampVars, histVars>>
    \/ LoadBE /\ UNCHANGED <<voteVars, loadVars, filterVars, smeVars, nosVars, geoVars, mjVars, clampVars, histVars>>
    \/ LoadDE /\ UNCHANGED <<voteVars, loadVars, filterVars, smeVars, nosVars, geoVars, mjVars, clampVars, histVars>>
    \/ MergeBegin /\ UNCHANGED <<voteVars, loadVars, filterVars, smeVars, nosVars, geoVars, mjVars, clampVars, histVars>>
    \/ MergeUpdate /\ UNCHANGED <<voteVars, loadVars, filterVars, smeVars, nosVars, geoVars, mjVars, clampVars, histVars>>
    \/ MergeEnd /\ UNCHANGED <<voteVars, loadVars, filterVars, smeVars, nosVars, geoVars, mjVars, clampVars, histVars>>

InitMerge == MergeInit /\ VoteIdle /\ LoadIdle /\ FilterIdle /\ SmeIdle /\ NosIdle /\ GeoIdle /\ MjIdle /\ ClampIdle /\ HistIdle

SpecMerge == InitMerge /\ [][MergeNext]_vars

\* filtering_articles_by_country, for every table and min_conf
FilterNext ==
    \/ FilterRaiseMissing /\ UNCHANGED <<voteVars, loadVars, mergeVars, smeVars, nosVars, geoVars, mjVars, clampVars, histVars>>
    \/ FilterSelect /\ UNCHANGED <<voteVars, loadVars, mergeVars, smeVars, nosVars, geoVars, mjVars, clampVars, histVars>>
    \/ FilterPrintRaise /\ UNCHANGED <<voteVars, loadVars, mergeVars, smeVars, nosVars, geoVars, mjVars, clampVars, histVars>>
    \/ FilterReturn /\ UNCHANGED <<voteVars, loadVars, mergeVars, smeVars, nosVars, geoVars, mjVars, clampVars, histVars>>

InitFilter == FilterInit /\ VoteIdle /\ LoadIdle /\ MergeIdle /\ SmeIdle /\ NosIdle /\ GeoIdle /\ MjIdle /\ ClampIdle /\ HistIdle

SpecFilter == InitFilter /\ [][FilterNext]_vars

\* run_snorkel, for every table of articles, both lists and both cut-offs
SnorkelNext ==
    \/ SnorkelApply /\ UNCHANGED <<voteVars, loadVars, mergeVars, filterVars, nosVars, geoVars, mjVars, clampVars, histVars>>
    \/ SnorkelFit /\ UNCHANGED <<voteVars, loadVars, mergeVars, filterVars, nosVars, geoVars, mjVars, clampVars, histVars>>
    \/ SnorkelFitRaise /\ UNCHANGED <<voteVars, loadVars, mergeVars, filterVars, nosVars, geoVars, mjVars, clampVars, histVars>>
    \/ SnorkelPredict /\ UNCHANGED <<voteVars, loadVars, mergeVars, filterVars, nosVars, geoVars, mjVars, clampVars, histVars>>
    \/ SnorkelLabel /\ UNCHANGED <<voteVars, loadVars, mergeVars, filterVars, nosVars, geoVars, mjVars, clampVars, histVars>>

InitSnorkel == SmeInit /\ VoteIdle /\ LoadIdle /\ MergeIdle /\ FilterIdle /\ NosIdle /\ GeoIdle /\ MjIdle /\ ClampIdle /\ HistIdle

SpecSnorkel == InitSnorkel /\ [][SnorkelNext]_vars

\* scrape_nos_feeds.main, for every feed list, both limits and every interrupt
NosNext ==
    \/ NosFeed /\ UNCHANGED <<voteVars, loadVars, mergeVars, filterVars, smeVars, geoVars, mjVars, clampVars, histVars>>
    \/ NosEntry /\ UNCHANGED <<voteVars, loadVars, mergeVars, filterVars, smeVars, geoVars, mjVars, clampVars, histVars>>
    \/ NosFetch /\ UNCHANGED <<voteVars, loadVars, mergeVars, filterVars, smeVars, geoVars, mjVars, clampVars, histVars>>
    \/ NosSleep /\ UNCHANGED <<voteVars, loadVars, mergeVars, filterVars, smeVars, geoVars, mjVars, clampVars, histVars>>
    \/ NosInterrupt /\ UNCHANGED <<voteVars, loadVars, mergeVars, filterVars, smeVars, geoVars, mjVars, clampVars, histVars>>
    \/ NosFinally /\ UNCHANGED <<voteVars, loadVars, mergeVars, filterVars, smeVars, geoVars, mjVars, clampVars, histVars>>

InitNos == NosInit /\ VoteIdle /\ LoadIdle /\ MergeIdle /\ FilterIdle /\ SmeIdle /\ GeoIdle /\ MjIdle /\ ClampIdle /\ HistIdle

SpecNos == InitNos /\ [][NosNext]_vars

\* build_geo_df, from the located articles on
GeoNext ==
    \/ GeoVote /\ UNCHANGED <<voteVars, loadVars, mergeVars, filterVars, smeVars, nosVars, mjVars, clampVars, histVars>>
    \/ GeoFilter /\ UNCHANGED <<voteVars, loadVars, mergeVars, filterVars, smeVars, nosVars, mjVars, clampVars, histVars>>

InitGeo == GeoInit /\ VoteIdle /\ LoadIdle /\ MergeIdle /\ FilterIdle /\ SmeIdle /\ NosIdle /\ MjIdle /\ ClampIdle /\ HistIdle

SpecGeo == InitGeo /\ [][GeoNext]_vars

\* merge_json_files, for every content of the files
MjNext ==
    \/ MjOpenFails /\ UNCHANGED <<voteVars, loadVars, mergeVars, filterVars, smeVars, nosVars, geoVars, clampVars, histVars>>
    \/ MjOpen /\ UNCHANGED <<voteVars, loadVars, mergeVars, filterVars, smeVars, nosVars, geoVars, clampVars, histVars>>
    \/ MjItem /\ UNCHANGED <<voteVars, loadVars, mergeVars, filterVars, smeVars, nosVars, geoVars, clampVars, histVars>>
    \/ MjWrite /\ UNCHANGED <<voteVars, loadVars, mergeVars, filterVars, smeVars, nosVars, geoVars, clampVars, histVars>>

InitMj == MjInit /\ VoteIdle /\ LoadIdle /\ MergeIdle /\ FilterIdle /\ SmeIdle /\ NosIdle /\ GeoIdle /\ ClampIdle /\ HistIdle

SpecMj == InitMj /\ [][MjNext]_vars

\* _clamp_date_range, for every range and value
ClampNext ==
    \/ ClampReturn /\ UNCHANGED <<voteVars, loadVars, mergeVars, filterVars, smeVars, nosVars, geoVars, mjVars, histVars>>
    \/ ClampRaise /\ UNCHANGED <<voteVars, loadVars, mergeVars, filterVars, smeVars, nosVars, geoVars, mjVars, histVars>>
    \/ ClampAgain /\ UNCHANGED <<voteVars, loadVars, mergeVars, filterVars, smeVars, nosVars, geoVars, mjVars, histVars>>

InitClamp == ClampInit /\ VoteIdle /\ LoadIdle /\ MergeIdle /\ FilterIdle /\ SmeIdle /\ NosIdle /\ GeoIdle /\ MjIdle /\ HistIdle

SpecClamp == InitClamp /\ [][ClampNext]_vars

\* security_nl_historical, for every archive; the call keeps running while a
\* step is possible
HistNext ==
    \/ HistFetch /\ UNCHANGED <<voteVars, loadVars, mergeVars, filterVars, smeVars, nosVars, geoVars, mjVars, clampVars>>
    \/ HistFetchRaise /\ UNCHANGED <<voteVars, loadVars, mergeVars, filterVars, smeVars, nosVars, geoVars, mjVars, clampVars>>
    \/ HistPost /\ UNCHANGED <<voteVars, loadVars, mergeVars, filterVars, smeVars, nosVars, geoVars, mjVars, clampVars>>
    \/ HistPageEnd /\ UNCHANGED <<voteVars, loadVars, mergeVars, filterVars, smeVars, nosVars, geoVars, mjVars, clampVars>>
    \/ HistReturn /\ UNCHANGED <<voteVars, loadVars, mergeVars, filterVars, smeVars, nosVars, geoVars, mjVars, clampVars>>

InitHist == HistInit /\ VoteIdle /\ LoadIdle /\ MergeIdle /\ FilterIdle /\ SmeIdle /\ NosIdle /\ GeoIdle /\ MjIdle /\ ClampIdle

SpecHist == InitHist /\ [][HistNext]_vars /\ WF_vars(HistNext)

----------------------------------------------------------------------------
(* Properties of voting_country_from_locations, checked under SpecVote     *)

Targets == {"NL", "BE", "DE"}

\* the candidate, lowercased, is a key of the gazetteer with a country of the three
ResolvesToTarget(loc) ==
    \E k \in DOMAIN v_gazetteer : k = Lower(loc) /\ v_gazetteer[k] \in Targets

\* the largest of the three counts
MaxVote == CHOOSE n \in {votes[c] : c \in Targets} : \A c \in Targets : votes[c] <= n

TotalVotes == votes["NL"] + votes["BE"] + votes["DE"]

\* C1: when no candidate resolves, after lowercasing, to NL, BE or DE (the empty
\* list included), the function returns exactly ("uncertain", 0.0, []), whatever
\* the threshold.
C1_NullCase ==
    (vpc = "done" /\ \A i \in 1..Len(locations) : ~ResolvesToTarget(locations[i]))
        => result = <<"uncertain", <<0, 1>>, <<>>>>

\* a hit on a country outside the three and a miss, under threshold 0
C1_Witness ==
    /\ vpc = "done"
    /\ v_gazetteer = GazA
    /\ locations = <<Lyon, Os>>
    /\ threshold = <<0, 1>>
    /\ result = <<"uncertain", <<0, 1>>, <<>>>>

\* C2: with at least one match, the winning country is returned if and only if
\* confidence >= threshold (equality is accepted); below the threshold the result
\* is "uncertain" with the computed confidence and the accumulated evidence.
C2_ThresholdGate ==
    (vpc = "done" /\ \E i \in 1..Len(locations) : ResolvesToTarget(locations[i]))
        => LET conf == <<MaxVote, TotalVotes>>
           IN  /\ result[1] \in Targets <=> ~(conf[1] * threshold[2] < threshold[1] * conf[2])
               /\ result[1] \in Targets => votes[result[1]] = MaxVote
               /\ result[1] \notin Targets =>
                      /\ result[1] = "uncertain"
                      /\ result[2][1] * conf[2] = conf[1] * result[2][2]
                      /\ result[2][2] # 0
                      /\ result[3] = evidence
                      /\ result[3] # <<>>

\* confidence 1/2 under threshold 1/2 is accepted
C2_Witness ==
    /\ vpc = "done"
    /\ threshold = <<1, 2>>
    /\ TotalVotes = 2
    /\ MaxVote = 1
    /\ result[1] \in Targets

\* C3: when total votes > 0 the winner has the maximal count and the returned
\* confidence is winner_votes / total.
C3_WinnerAndConfidence ==
    (vpc = "done" /\ TotalVotes > 0)
        => /\ result[1] \in {"uncertain"} \cup {c \in Targets : votes[c] = MaxVote}
           /\ result[2][2] # 0
           /\ result[2][1] * TotalVotes = MaxVote * result[2][2]

\* two votes for NL and one for DE under threshold 0.6: NL with confidence 2/3
C3_Witness ==
    /\ vpc = "done"
    /\ v_gazetteer = GazA
    /\ locations = <<Oss, oSS, Ulm>>
    /\ threshold = <<3, 5>>
    /\ votes = [c \in Targets |-> IF c = "NL" THEN 2 ELSE IF c = "DE" THEN 1 ELSE 0]
    /\ result[1] = "NL"
    /\ result[2] = <<2, 3>>

\* the pairs (name, country) of the candidates 1..k that resolve to a target country
RECURSIVE ExpectedEvidence(_)
ExpectedEvidence(k) ==
    IF k = 0 THEN <<>>
    ELSE IF ResolvesToTarget(locations[k])
         THEN Append(ExpectedEvidence(k - 1),
                     <<locations[k], v_gazetteer[Lower(locations[k])]>>)
         ELSE ExpectedEvidence(k - 1)

\* C4: after any number of iterations, a candidate has added a vote to a country
\* and a pair (original name, country) to the evidence if and only if its
\* lowercased name resolves to NL, BE or DE; every other candidate changed neither.
C4_VoteCounting ==
    vpc \in {"loop", "done"}
        => /\ evidence = ExpectedEvidence(li - 1)
           /\ \A c \in Targets :
                  votes[c] = Cardinality({i \in 1..(li - 1) :
                                 /\ ResolvesToTarget(locations[i])
                                 /\ v_gazetteer[Lower(locations[i])] = c})

\* a hit on FR and a miss leave no trace; the third candidate counts
C4_Witness ==
    /\ vpc = "loop"
    /\ li = 4
    /\ v_gazetteer = GazA
    /\ locations = <<Lyon, Os, oSS>>
    /\ evidence = <<<<oSS, "NL">>>>
    /\ TotalVotes = 1

\* C5: after any prefix of the candidates the counts sum to the number of counted
\* votes, which is the length of the evidence, country by country.
C5_RecordInvariant ==
    vpc \in {"loop", "done"}
        => /\ TotalVotes = Len(evidence)
           /\ Len(evidence) <= li - 1
           /\ \A c \in Targets :
                  votes[c] = Cardinality({j \in 1..Len(evidence) : evidence[j][2] = c})

\* in the middle of a list: two candidates seen, one counted, one to go
C5_Witness ==
    /\ vpc = "loop"
    /\ li = 3
    /\ Len(locations) = 3
    /\ Len(evidence) = 1
    /\ TotalVotes = 1

\* C6: among tied countries the winner is the first in the order NL, BE, DE.
C6_TieBreak ==
    (/\ vpc = "done"
     /\ result[1] \in Targets
     /\ Cardinality({c \in Targets : votes[c] = MaxVote}) >= 2)
        => result[1] = (IF votes["NL"] = MaxVote THEN "NL"
                        ELSE IF votes["BE"] = MaxVote THEN "BE" ELSE "DE")

\* a three-way tie: DE is named first, BE is first in the alphabet, NL wins
C6_Witness ==
    /\ vpc = "done"
    /\ v_gazetteer = GazA
    /\ locations = <<Ulm, Spa, Oss>>
    /\ votes = [c \in Targets |-> 1]
    /\ result[1] = "NL"

UpperLetters == <<"A", "B", "C", "D", "E", "F", "G", "H", "I", "J", "K", "L", "M", "N",
                  "O", "P", "Q", "R", "S", "T", "U", "V", "W", "X", "Y", "Z", "E'", "N~">>
LowerLetters == <<"a", "b", "c", "d", "e", "f", "g", "h", "i", "j", "k", "l", "m", "n",
                  "o", "p", "q", "r", "s", "t", "u", "v", "w", "x", "y", "z", "e'", "n~">>

\* the same characters, up to the case of the letters
SameIgnoringCase(s, t) ==
    /\ Len(s) = Len(t)
    /\ \A i \in 1..Len(s) :
           \/ s[i] = t[i]
           \/ \E n \in 1..Len(UpperLetters) : {s[i], t[i]} = {UpperLetters[n], LowerLetters[n]}

\* C7: the candidate of the last iteration got a country if and only if some key
\* of the index is the candidate up to letter case, and then that key's country;
\* no key that only contains, or is contained in, the candidate is used.
C7_ExactCaseInsensitive ==
    (vpc \in {"loop", "done"} /\ li > 1)
        => LET loc == locations[li - 1]
               same == {k \in DOMAIN v_gazetteer : SameIgnoringCase(loc, k)}
           IN  /\ cc # None <=> same # {}
               /\ \A k \in same : cc = v_gazetteer[k]

\* "Os" is a part of the key "oss" and got nothing; "oSS" got the country of "oss"
C7_Witness ==
    /\ vpc = "loop"
    /\ li = 3
    /\ v_gazetteer = GazA
    /\ locations = <<Os, oSS>>
    /\ cc = "NL"
    /\ evidence = <<<<oSS, "NL">>>>

----------------------------------------------------------------------------
(* Properties of the import-time merge, checked under SpecMerge            *)

\* the tables in the order of the code, and the last of the first n to hold k
TablesInOrder == <<nl_gaz, be_gaz, de_gaz>>

Holders(k, n) == {i \in 1..n : k \in DOMAIN TablesInOrder[i]}

LastHolder(k, n) == CHOOSE i \in Holders(k, n) : \A j \in Holders(k, n) : j <= i

Orders == {p \in [1..3 -> 1..3] : \A i, j \in 1..3 : p[i] = p[j] => i = j}

\* the three tables merged in the order p
MergedIn(p) == MergeAll(<<>>, [i \in 1..3 |-> TablesInOrder[p[i]]])

\* C8: after merging the first n tables (all three at the end), the index holds
\* the names of those tables, each with the country of the last table merged that
\* has it; and another merge order gives a name another country exactly when the
\* name is in more than one table.
C8_LastWriterWins ==
    mpc \in {"loop", "done"}
        => /\ DOMAIN gazetteer = UNION {DOMAIN TablesInOrder[i] : i \in 1..(mi - 1)}
           /\ \A k \in DOMAIN gazetteer :
                  gazetteer[k] = TablesInOrder[LastHolder(k, mi - 1)][k]
           /\ mpc = "done" =>
                  \A k \in DOMAIN gazetteer :
                      (\E p \in Orders : MergedIn(p)[k] # gazetteer[k])
                          <=> Cardinality(Holders(k, 3)) >= 2

\* "oss" is in one table, "born" in the first two, "halle" in the last two
C8_Witness ==
    /\ mpc = "done"
    /\ nl_gaz = (Lower(Oss) :> "NL") @@ (Lower(Born) :> "NL")
    /\ be_gaz = (Lower(Halle) :> "BE") @@ (Lower(Born) :> "BE")
    /\ de_gaz = (Lower(Halle) :> "DE")
    /\ gazetteer = (Lower(Oss) :> "NL") @@ (Lower(Born) :> "BE") @@ (Lower(Halle) :> "DE")

----------------------------------------------------------------------------
(* Properties of load_geonames_file, checked under SpecLoad                *)

\* C9: a step of the row loop leaves every value of the index in keep_countries,
\* and changes the index (stores a primary or an alternate name) only for a row
\* whose country code is in keep_countries and whose feature class is in
\* keep_classes; a row failing either test stores nothing.
C9_RowFilter ==
    [][(lpc = "loop" /\ nread' = nread + 1)
          => LET passes == /\ Len(row') >= 9
                           /\ row'[9] \in keep_countries
                           /\ row'[7] \in keep_classes
             IN  /\ \A k \in DOMAIN l_gazetteer' : l_gazetteer'[k] \in keep_countries
                 /\ ~passes => (l_gazetteer' = l_gazetteer /\ l_writes' = <<>>)
                 /\ \A k \in DOMAIN l_gazetteer' :
                        (k \notin DOMAIN l_gazetteer \/ l_gazetteer'[k] # l_gazetteer[k])
                            => (passes /\ l_gazetteer'[k] = row'[9])]_vars

\* after " Spa " was stored, a lake (class H) with a good name and a good
\* alternate stored nothing
C9_Witness ==
    /\ lpc = "loop"
    /\ nread = 2
    /\ keep_countries = DefaultKeepCountries
    /\ keep_alternates
    /\ row = RowLake
    /\ l_writes = <<>>
    /\ l_gazetteer = (Lower(Spa) :> "BE")

\* the vowels among the characters of the model
Vowels == {"a", "e", "i", "o", "u", "y", "e'"}

\* C10: every name stored through the alternate-name path (line 50) is stored
\* with keep_alternates true and is, trimmed and lowercased, non-empty, at least
\* 3 long, holds a vowel and matches the allowed-character pattern.
C10_AlternateFilter ==
    \A i \in 1..Len(l_writes) :
        l_writes[i].line = 50
            => LET alt == l_writes[i].key
               IN  /\ keep_alternates
                   /\ alt # <<>>
                   /\ Len(alt) >= 3
                   /\ \E j \in 1..Len(alt) : alt[j] \in Vowels
                   /\ \A j \in 1..Len(alt) : alt[j] \in LatinChars

\* the same with the character class of HAS_VOWEL in place of the vowels: every
\* character of U+00E0..U+00FF counts, the consonants among them included
C10_AsCoded ==
    \A i \in 1..Len(l_writes) :
        l_writes[i].line = 50
            => LET alt == l_writes[i].key
               IN  /\ keep_alternates
                   /\ alt # <<>>
                   /\ Len(alt) >= 3
                   /\ \E j \in 1..Len(alt) : alt[j] \in VowelClass
                   /\ \A j \in 1..Len(alt) : alt[j] \in LatinChars

\* the primary name of the row holds a character outside the pattern
NameHasBadChar(r) == \E i \in 1..Len(r[2]) : r[2][i] \notin LatinChars

\* the alternate names of the row, trimmed and lowercased
AlternatesOf(r) ==
    LET pieces == SplitComma(r[4])
    IN  {Lower(Strip(pieces[i])) : i \in 1..Len(pieces)}

\* C11 as stated: a row with too few columns, or with a disallowed character in
\* its name, adds no entry to the index.
C11_AsClaimed ==
    [][(lpc = "loop" /\ nread' = nread + 1
            /\ (Len(row') < 9 \/ NameHasBadChar(row')))
          => l_gazetteer' = l_gazetteer]_vars

\* C11 as amended: a row with too few columns stores nothing and leaves the index
\* as it was; a row whose primary name holds a disallowed character does not get
\* that name stored, and whatever it stores is one of its own alternate names,
\* made of allowed characters only; the loop goes on in both cases.
C11_MalformedRows ==
    [][(lpc = "loop" /\ nread' = nread + 1)
          => /\ lpc' = "loop"
             /\ Len(row') < 9 => (l_gazetteer' = l_gazetteer /\ l_writes' = <<>>)
             /\ (Len(row') >= 9 /\ NameHasBadChar(row'))
                    => /\ \A i \in 1..Len(l_writes') : l_writes'[i].line = 50
                       /\ \A k \in DOMAIN l_gazetteer' :
                              (k \notin DOMAIN l_gazetteer \/ l_gazetteer'[k] # l_gazetteer[k])
                                  => /\ k \in AlternatesOf(row')
                                     /\ \A j \in 1..Len(k) : k[j] \in LatinChars]_vars

\* the row named "O#s" stored its alternate "Halle" and not its name
C11_Witness ==
    /\ lpc = "loop"
    /\ nread = 1
    /\ row = RowBadName
    /\ l_gazetteer = (Lower(Halle) :> "BE")
    /\ l_writes = <<[key |-> Lower(Halle), value |-> "BE", line |-> 50]>>


----------------------------------------------------------------------------
(* Properties of filtering_articles_by_country, under SpecFilter           *)

BothColumns == {"country", "country_score"} \subseteq f_df.columns

\* C12: whenever the table lacks 'country' or 'country_score' (one of them
\* is enough), the call ends by raising the ValueError that names the two
\* columns; no mask was computed, no table was built and nothing was returned.
C12_FailFast ==
    (fpc \in {"print", "done", "raised"} /\ ~BothColumns)
        => /\ fpc = "raised"
           /\ f_error = [type |-> "ValueError",
                         message |-> "Missing required columns: 'country' and 'country_score'."]
           /\ f_filtered = Unbound
           /\ f_result = Unbound

C12_Witness ==
    /\ fpc = "raised"
    /\ "country" \in f_df.columns
    /\ "country_score" \notin f_df.columns
    /\ Len(f_df.rows) = MaxTableRows
    /\ f_error.type = "ValueError"

\* the rows C13 says are returned
KeptByClaim(r) ==
    /\ r["country"] \in {"NL", "BE", "DE"}
    /\ ~FracLess(r["country_score"], f_min_conf)

\* C13 as stated: a call on a table with both columns returns exactly the
\* rows whose country is NL, BE or DE and whose score is at least min_conf,
\* and leaves the table it was given as it was.
C13_ExactRows ==
    [][fpc = "print"
          => /\ fpc' = "done"
             /\ f_result' = [columns |-> f_df.columns,
                             rows |-> SelectSeq(f_df.rows, KeptByClaim)]
             /\ f_df' = f_df]_vars

\* What the code does keep of C13: a call that returns, returns those rows,
\* and no step of the call changes the table it was given.
C13_WhenReturning ==
    [][/\ fpc' # "idle" => f_df' = f_df
       /\ fpc' = "done" => f_result' = [columns |-> f_df.columns,
                                        rows |-> SelectSeq(f_df.rows, KeptByClaim)]]_vars


----------------------------------------------------------------------------
(* Properties of run_snorkel and the labeling functions, under SpecSnorkel *)

\* C14: when run_snorkel has returned, every row carries both columns, its
\* sme_label is 1 exactly when its sme_probability is at least min_conf
\* (equal counts) and 0 otherwise, and its sme_probability is still the
\* probability the label model gave for the row.
C14_SmeThresholdGate ==
    spc = "done"
        => /\ {"sme_probability", "sme_label"} \subseteq s_df.columns
           /\ s_result.df = s_df
           /\ \A i \in 1..Len(s_df.rows) :
                 LET r == s_df.rows[i]
                     p == r["sme_probability"]
                 IN  /\ r["sme_label"] \in {0, 1}
                     /\ r["sme_label"] = 1 <=> p[1] * s_min_conf[2] >= s_min_conf[1] * p[2]
                     /\ p = s_probs.values[i]

C14_Witness ==
    /\ spc = "done"
    /\ Len(s_df.rows) = 2
    /\ s_df.rows[1]["sme_probability"] = s_min_conf
    /\ s_df.rows[1]["sme_label"] = 1
    /\ s_df.rows[2]["sme_probability"] = Frac(2, 5)
    /\ s_df.rows[2]["sme_label"] = 0

\* C19: every labeling function of the module gives -1, 0 or 1 on every row
\* of the table run_snorkel is called with, and the vote matrix built from the list in use has one row
\* per article, one cell per function, and every cell in {-1, 0, 1}.
C19_LabelDomain ==
    /\ spc = "call"
          => \A i \in 1..Len(s_df.rows) : \A k \in 1..Len(AllLFs) :
                 CallLF(AllLFs[k], s_df.rows[i]) \in {-1, 0, 1}
    /\ spc \in {"fit", "predict", "label", "done", "raised"}
          => /\ Len(s_L.matrix) = Len(s_df.rows)
             /\ \A i \in 1..Len(s_L.matrix) :
                   /\ Len(s_L.matrix[i]) = Len(s_lfs.list)
                   /\ \A j \in 1..Len(s_L.matrix[i]) : s_L.matrix[i][j] \in {-1, 0, 1}

C19_Witness ==
    /\ spc = "fit"
    /\ s_lfs = List(AllLFs)
    /\ Len(s_L.matrix) = 2
    /\ s_L.matrix[1] = <<-1, -1, -1, 1, -1, -1, -1, -1, -1, -1, 1, -1>>
    /\ s_L.matrix[2] = <<-1, -1, -1, -1, -1, -1, -1, -1, -1, -1, -1, 0>>


----------------------------------------------------------------------------
(* Purity of voting_country_from_locations, under SpecVote                 *)

\* C20: no step of a call changes the candidate list or the gazetteer it
\* was given, and a call made again with the same arguments returns what
\* the call before it returned: nothing is carried from one call to the next.
C20_Purity ==
    [][/\ locations' = locations
       /\ v_gazetteer' = v_gazetteer
       /\ (vpc' = "done" /\ calls' > 1) => result' = prev_result]_vars

C20_Witness ==
    /\ vpc = "done"
    /\ calls = 2
    /\ Len(locations) = MaxLocs
    /\ Len(result[3]) >= 2
    /\ result[1] \in {"NL", "BE", "DE"}
    /\ result = prev_result


----------------------------------------------------------------------------
(* Further properties of the vote, under SpecVote                          *)

\* the lists that are permutations of the list locs
PermutationsOf(locs) ==
    {[i \in 1..Len(locs) |-> locs[p[i]]] : p \in Permutations(1..Len(locs))}

\* the evidence a list must give: its hits on NL, BE and DE, in its order
HitsInOrder(locs, gaz) ==
    LET Hit(l) == Lower(l) \in DOMAIN gaz /\ gaz[Lower(l)] \in {"NL", "BE", "DE"}
        Pair(l) == <<l, gaz[Lower(l)]>>
        F[n \in 0..Len(locs)] ==
            IF n = 0 THEN <<>>
            ELSE IF Hit(locs[n]) THEN Append(F[n - 1], Pair(locs[n])) ELSE F[n - 1]
    IN  F[Len(locs)]

\* C25: when a call has returned, a call on any permutation of its candidate
\* list (same gazetteer, same threshold) returns the same country and the
\* same confidence, and its evidence lists the hits in the permuted order.
C25_OrderIndependence ==
    vpc = "done"
        => \A q \in PermutationsOf(locations) :
              LET r == voting_country_from_locations(q, v_gazetteer, threshold)
              IN  /\ r[1] = result[1]
                  /\ r[2] = result[2]
                  /\ r[3] = HitsInOrder(q, v_gazetteer)

C25_Witness ==
    /\ vpc = "done"
    /\ calls = 1
    /\ Len(locations) = 3
    /\ result[1] = "NL"
    /\ Len(result[3]) = 3
    /\ \E q \in PermutationsOf(locations) :
          /\ q # locations
          /\ voting_country_from_locations(q, v_gazetteer, threshold)[3] # result[3]

\* C26: the returned confidence lies in [0, 1]; it is 0 only when no
\* candidate was counted; with at least one counted candidate it is at least
\* 1/3, and then a threshold of 1/3 or less never gives "uncertain".
C26_ConfidenceRange ==
    vpc = "done"
        => LET conf == result[2]
           IN  /\ conf[2] > 0
               /\ 0 <= conf[1] /\ conf[1] <= conf[2]
               /\ conf[1] = 0 => result[3] = <<>>
               /\ result[3] # <<>>
                     => /\ 3 * conf[1] >= conf[2]
                        /\ 3 * threshold[1] <= threshold[2] => result[1] # "uncertain"

C26_Witness ==
    /\ vpc = "done"
    /\ result[2] = Frac(1, 3)
    /\ threshold = Frac(1, 3)
    /\ result[1] = "NL"
    /\ Len(result[3]) = 3

----------------------------------------------------------------------------
(* Further properties of filtering_articles_by_country, under SpecFilter   *)

\* C24: on a table with both columns the call never ends by raising, and
\* on such a table without rows it returns a table without rows.
C24_ReturnsNormally ==
    BothColumns
        => /\ fpc # "raised"
           /\ (fpc = "done" /\ f_df.rows = <<>>) => f_result.rows = <<>>

----------------------------------------------------------------------------
(* Further properties of the labeling functions, under SpecSnorkel         *)

\* a row without the clean_geo column, or with None or "" in it
NoText(x) ==
    \/ "clean_geo" \notin DOMAIN x
    \/ x["clean_geo"] = [none |-> TRUE]
    \/ x["clean_geo"] = [str |-> <<>>]

\* C27: on a row whose clean_geo is missing, None or empty every labeling
\* function of the module returns ABSTAIN, and the row of the vote matrix
\* built for it holds ABSTAIN in every cell.
C27_NoTextAbstains ==
    /\ spc = "call"
          => \A i \in 1..Len(s_df.rows) :
                 NoText(s_df.rows[i])
                     => \A k \in 1..Len(AllLFs) : CallLF(AllLFs[k], s_df.rows[i]) = -1
    /\ spc = "fit"
          => \A i \in 1..Len(s_df.rows) :
                 NoText(s_df.rows[i])
                     => \A j \in 1..Len(s_L.matrix[i]) : s_L.matrix[i][j] = -1

C27_Witness ==
    /\ spc = "fit"
    /\ s_lfs = [list |-> AllLFs]
    /\ Len(s_df.rows) = 2
    /\ "clean_geo" \in s_df.columns
    /\ s_df.rows[1]["clean_geo"] = [none |-> TRUE]
    /\ s_df.rows[2]["clean_geo"] = [str |-> <<>>]
    /\ s_L.matrix[1] = [j \in 1..12 |-> -1]
    /\ s_L.matrix[2] = [j \in 1..12 |-> -1]


----------------------------------------------------------------------------
(* Properties of scrape_nos_feeds.main, under SpecNos                      *)

\* C21 as stated: when main has finished after a keyboard interrupt in the
\* feed/entry loop and at least one row had been collected by then, the CSV
\* and the JSON output both hold every row collected before the interrupt.
C21_AsClaimed ==
    (npc = "end" /\ n_interrupt.raised /\ n_interrupt.rows # <<>>)
        => /\ n_written.attempted
           /\ n_written.csv = n_interrupt.rows
           /\ n_written.json = n_interrupt.rows

\* C21 as amended: in that case main has tried to write exactly the rows
\* collected before the interrupt; unless to_csv or json.dump failed both
\* outputs hold them all, and when only json.dump failed the CSV holds them.
C21_PartialSave ==
    (npc = "end" /\ n_interrupt.raised /\ n_interrupt.rows # <<>>)
        => /\ n_rows = n_interrupt.rows
           /\ n_written.attempted
           /\ n_written.failure # "csv" => n_written.csv = n_interrupt.rows
           /\ n_written.failure = "none" => n_written.json = n_interrupt.rows

C21_Witness ==
    /\ npc = "end"
    /\ n_interrupt.raised
    /\ n_interrupt.at = "fetch"
    /\ Len(n_interrupt.rows) = 1
    /\ n_written.attempted
    /\ n_written.failure = "none"
    /\ n_written.csv = n_interrupt.rows
    /\ n_written.json = n_interrupt.rows

\* C22: at every point of a run the collected rows have pairwise distinct,
\* non-empty URLs, no URL has been fetched twice (whether or not its fetch
\* gave a row), no empty URL has been fetched, and every fetched URL is in
\* seen_urls.
C22_DedupeByUrl ==
    /\ \A a, b \in 1..Len(n_rows) : a # b => n_rows[a].url # n_rows[b].url
    /\ \A a \in 1..Len(n_rows) :
          n_rows[a].url # "" /\ \E b \in 1..Len(n_fetched) : n_fetched[b] = n_rows[a].url
    /\ \A a, b \in 1..Len(n_fetched) : a # b => n_fetched[a] # n_fetched[b]
    /\ \A a \in 1..Len(n_fetched) : n_fetched[a] # "" /\ n_fetched[a] \in n_seen_urls

C22_Witness ==
    /\ npc = "end"
    /\ ~n_interrupt.raised
    /\ n_feeds = <<(<<"a", "">>), (<<"a", "b">>)>>
    /\ n_max_feeds = 0 /\ n_max_items = 0
    /\ n_fetched = <<"a", "b">>
    /\ Len(n_rows) = 1
    /\ n_rows[1].url = "b"

----------------------------------------------------------------------------
(* Properties of build_geo_df, under SpecGeo                               *)

\* the vote share of the winning country of an article, 0 without a match
WinningShare(locs) ==
    voting_country_from_locations(locs, GeoGazetteer, Frac(0, 1))[2]

\* the article has at least one gazetteer match that counts as a vote
HasMatch(locs) == ~FracEq(WinningShare(locs), Frac(0, 1))

\* the article i is among the rows returned
Returned(i) == \E k \in 1..Len(g_result.rows) : g_result.rows[k].index = i

\* C23: when build_geo_df has returned, an article with at least one
\* gazetteer match is among the rows returned exactly when the vote share of
\* its winning country is at least min_conf.
C23_EffectiveCutOff ==
    gpc = "done"
        => \A i \in 1..Len(g_locations) :
              HasMatch(g_locations[i])
                  => (Returned(i) <=>
                         ScoreAtLeast(WinningShare(g_locations[i]), g_min_conf))

----------------------------------------------------------------------------
(* Properties of merge_json_files, under SpecMj                            *)

\* the URLs of the collected articles
UrlsOf(articles) == {articles[k].url : k \in 1..Len(articles)}

\* the collected articles have pairwise distinct URLs, each a real one, and
\* seen_urls is the set of these URLs
C28_DistinctAndSeen ==
    /\ \A k1, k2 \in 1..Len(j_all) :
          k1 # k2 => j_all[k1].url # j_all[k2].url
    /\ \A k \in 1..Len(j_all) : j_all[k].url \notin {PyNone, Str(<<>>)}
    /\ j_seen = UrlsOf(j_all)

\* a round of the item loop on an object keeps it exactly when it has a
\* URL that no collected article has, and no step removes or replaces a
\* collected article
C28_FirstKept ==
    /\ Len(j_all) <= Len(j_all')
    /\ SubSeq(j_all', 1, Len(j_all)) = j_all
    /\ (jpc = "item" /\ j_ii' = j_ii + 1)
          => LET item == j_data[j_ii + 1]
             IN  IF item.url \notin {PyNone, Str(<<>>)} /\ item.url \notin UrlsOf(j_all)
                 THEN j_all' = Append(j_all, item)
                 ELSE j_all' = j_all

\* a file that cannot be opened or parsed changes nothing and the loop goes
\* on with the next file
C28_SkipsBadFile ==
    (j_skipped' # j_skipped)
        => /\ j_all' = j_all /\ j_seen' = j_seen
           /\ j_fi' = j_fi + 1 /\ jpc' = "file"

\* C28: at every point of the merge the collected articles have pairwise
\* distinct URLs and seen_urls is the set of their URLs; the article kept
\* for a URL is the first one met, items without a URL are dropped, a file
\* that cannot be read is skipped and the loop ends only when every file
\* was taken.
C28_DedupeByUrl ==
    /\ [](C28_DistinctAndSeen /\ (jpc \in {"end", "raised"} => j_fi = j_nfiles))
    /\ [][C28_FirstKept /\ C28_SkipsBadFile]_vars

\* the first file was skipped, the second holds the same URL twice and the
\* second occurrence has just been passed over
C28_Witness ==
    /\ jpc = "item"
    /\ j_skipped = {1}
    /\ Len(j_data) = 2 /\ j_ii = 2
    /\ Len(j_all) = 1
    /\ j_data[1] = j_all[1]
    /\ j_data[2] # NotDict
    /\ j_data[2].url = j_data[1].url

----------------------------------------------------------------------------
(* Properties of _clamp_date_range, under SpecClamp                        *)

\* the outcome is a range within [min_d, max_d]
ValidRange(outcome) ==
    /\ ~outcome.raised
    /\ c_min <= outcome.value.items[1].day
    /\ outcome.value.items[1].day <= outcome.value.items[2].day
    /\ outcome.value.items[2].day <= c_max

\* C29: every call ends with a range (sd, ed) with min_d <= sd <= ed <= max_d,
\* a value that is not a pair gives (min_d, max_d), and the call on the
\* result gives the result again.
C29_ValidRange ==
    /\ cpc # "raised"
    /\ cpc \in {"done", "again"}
          => /\ ValidRange(c_result)
             /\ NotAPair(c_value)
                   => c_result.value = Tuple(<<Date(c_min), Date(c_max)>>)
    /\ cpc = "again" => c_again = c_result

----------------------------------------------------------------------------
(* Properties of security_nl_historical, under SpecHist                    *)

\* the articles of a call that returned are dated on or after the cut-off
ReturnedOnOrAfterCutOff ==
    hpc = "returned"
        => \A k \in 1..Len(h_articles) : h_articles[k].date >= h_cutoff

\* C30: the call ends, whatever the archive holds, and the articles it
\* returns are dated on or after the cut-off.
C30_Terminates ==
    /\ <>(hpc \in {"returned", "raised"})
    /\ []ReturnedOnOrAfterCutOff

============================================================================
